---- MODULE Spec2Model ----
(***************************************************************************)
(* A model of src/webdav.js (lines 1-696, the current server): the WebDAV  *)
(* dispatcher, the PROPFIND/GET/HEAD/COPY/MOVE handlers and the caches     *)
(* they share.                                                             *)
(*                                                                         *)
(* Strings are sequences of tokens.  A token is one character, or a word   *)
(* the code only ever compares as a whole (a fixed directory name, a file  *)
(* extension).  The three fixed directory names of the source are written  *)
(* in ASCII here:                                                          *)
(*    "DailySongs"      stands for the daily-songs directory name,         *)
(*    "DailyPlaylists"  for the daily-playlists directory name,            *)
(*    "MyPlaylists"     for the user-playlists directory name.             *)
(* A task is one request; one action is the code that runs between two     *)
(* awaits of a task (JavaScript runs it without interruption).  The reply  *)
(* of an upstream call is computed from the upstream state when the reply  *)
(* is delivered.  Modification times are left out of the listing payload.  *)
(***************************************************************************)
EXTENDS Integers, Sequences, FiniteSets, TLC

VARIABLES
    now,          \* Date.now()
    userCookie,   \* the credential, "" when there is none
    upstream,     \* the remote service: session validity, playlist tracks, songs, and
                  \* the number of calls that may still fail
    webdavCache,  \* songs, playlists, userPlaylists, recommendPlaylists, dailySongs, propfind
    songPathMap,  \* path -> songId
    disk,         \* the cache file as last written by saveCache
    tasks,        \* the requests being served, one record per slot
    response,     \* the request answered by the last step, with its answer
    started,      \* number of requests accepted so far
    history       \* what the clients have observed so far (not program state)

vars ==
    <<now, userCookie, upstream, webdavCache, songPathMap, disk, tasks, response, started,
      history>>

----------------------------------------------------------------------------
(* Bounds of the model *)

MaxTicks == 2
MaxRequests == 3

(* config, src/webdav.js:11-17 *)
refreshInterval == 3600000
metadataTTL == 86400000
quality == "exhigh"
BatchSize == 50

TickStep == refreshInterval \div 2
StartTime == 2 * metadataTTL
Tasks == {1, 2}

----------------------------------------------------------------------------
(* Sequences *)

Range(s) == {s[i] : i \in 1..Len(s)}

RECURSIVE SelectIds(_, _)
SelectIds(s, keep) ==
    IF s = <<>> THEN <<>>
    ELSE IF Head(s) \in keep THEN <<Head(s)>> \o SelectIds(Tail(s), keep)
    ELSE SelectIds(Tail(s), keep)

startsWith(s, p) == Len(s) >= Len(p) /\ SubSeq(s, 1, Len(p)) = p
endsWith(s, p) == Len(s) >= Len(p) /\ SubSeq(s, Len(s) - Len(p) + 1, Len(s)) = p
substring(s, n) == SubSeq(s, n + 1, Len(s))

(* s.replace(/\/$/, '') *)
stripSlash(s) == IF s # <<>> /\ s[Len(s)] = "/" THEN SubSeq(s, 1, Len(s) - 1) ELSE s

(* index of the last "/" of s, 0 when there is none *)
lastSlash(s) ==
    LET I == {i \in 1..Len(s) : s[i] = "/"}
    IN IF I = {} THEN 0 ELSE CHOOSE i \in I : \A j \in I : j <= i

basename(s) == substring(s, lastSlash(s))

----------------------------------------------------------------------------
(* Names *)

DailySongsName == "DailySongs"
DailyPlaylistsName == "DailyPlaylists"
MyPlaylistsName == "MyPlaylists"

Illegal == {"\\", "/", ":", "*", "?", "\"", "<", ">", "|"}
Whitespace == {" "}

RECURSIVE trimStart(_)
trimStart(s) == IF s # <<>> /\ Head(s) \in Whitespace THEN trimStart(Tail(s)) ELSE s

RECURSIVE trimEnd(_)
trimEnd(s) ==
    IF s # <<>> /\ s[Len(s)] \in Whitespace THEN trimEnd(SubSeq(s, 1, Len(s) - 1)) ELSE s

trim(s) == trimEnd(trimStart(s))

(* cleanName, were the pattern without its g flag: the first match only *)
cleanName_firstOnly(name) ==
    IF name = <<>> THEN <<"Unknown">>
    ELSE LET I == {i \in 1..Len(name) : name[i] \in Illegal}
             first == CHOOSE i \in I : \A j \in I : i <= j
         IN trim([i \in 1..Len(name) |-> IF I # {} /\ i = first THEN "_" ELSE name[i]])

cleanName(name) ==
    IF name = <<>> THEN <<"Unknown">>
    ELSE trim([i \in 1..Len(name) |-> IF name[i] \in Illegal THEN "_" ELSE name[i]])

getExtension == IF quality \in {"lossless", "hires", "jymaster"} THEN ".flac" ELSE ".mp3"

Dash == <<" ", "-", " ">>

(* `${cleanName(s.name)} - ${cleanName(s.ar)}${ext}` *)
fileName(s) == cleanName(s.name) \o Dash \o cleanName(s.ar) \o <<getExtension>>

----------------------------------------------------------------------------
(* URLs.  encodeURI escapes every token outside its unreserved set; the    *)
(* escape of token c is written "%" \o c.                                  *)

UriSafe ==
    {"/", ":", "*", "?", "a", "b", "p", "q", "r", "x", "-", "_", ".mp3", ".flac", "cover.jpg",
     "Unknown"}

escapeToken(c) == IF c \in UriSafe THEN c ELSE "%" \o c

encodeURI(s) == [i \in 1..Len(s) |-> escapeToken(s[i])]

Escapable == {" ", "\\", "\"", "<", ">", "|", DailySongsName, DailyPlaylistsName, MyPlaylistsName}

unescapeToken(c) ==
    IF \E e \in Escapable : c = "%" \o e
    THEN CHOOSE e \in Escapable : c = "%" \o e
    ELSE c

(* decodeURIComponent throws on a "%" that starts no escape *)
decodable(s) == "%" \notin Range(s)
decodeURIComponent(s) == [i \in 1..Len(s) |-> unescapeToken(s[i])]

(* decodeURIComponent(req.path).replace(/\/$/, '') || '/' *)
urlPathOf(raw) ==
    LET p == stripSlash(decodeURIComponent(raw))
    IN IF p = <<>> THEN <<"/">> ELSE p

----------------------------------------------------------------------------
(* The remote catalog (api = require('./main')), an external service.      *)

SongIds == {1, 2}
upSongs == [id \in SongIds |-> IF id = 1 THEN [id |-> 1, name |-> <<"a">>, ar |-> <<"x">>]
                                ELSE [id |-> 2, name |-> <<"b">>, ar |-> <<"x">>]]
upDailySongs == <<1, 2>>
upRecommend == <<[id |-> 10, name |-> <<"r">>]>>
upUserPlaylists == <<[id |-> 20, name |-> <<"p">>]>>
PlaylistIds == {10, 20}
upInitialTracks == [id \in PlaylistIds |-> <<2>>]

(* a catalog with enough further songs for a playlist of two batches: two *)
(* letters make the name of each                                          *)
Letters == <<"a", "b", "p", "q", "r", "x", "-", "_">>
BulkTracks == [i \in 1..(BatchSize + 2) |-> i + 2]
upBulkSongs ==
    [id \in SongIds \cup Range(BulkTracks) |->
        IF id \in SongIds THEN upSongs[id]
        ELSE [id |-> id,
              name |-> <<Letters[(id \div Len(Letters)) + 1], Letters[(id % Len(Letters)) + 1]>>,
              ar |-> <<"x">>]]

(* api.search: the songs whose "<name> <artist>" is the keywords, best first *)
upSearch(keywords) ==
    SelectIds(<<1, 2>>, {id \in SongIds : upSongs[id].name \o <<" ">> \o upSongs[id].ar = keywords})

(* how an upstream call can end: a well-formed reply, a reply that lacks   *)
(* the field the caller reads, or an exception                             *)
Outcomes == {"ok", "nofield", "throw"}
MaxFaults == 1

(* codes the add-track mutation is rejected with; 0 stands for no code *)
RejectCodes == {0, 404, 405, -460}

----------------------------------------------------------------------------
(* JavaScript objects used as maps *)

Put(f, k, v) == [x \in DOMAIN f \cup {k} |-> IF x = k THEN v ELSE f[x]]
Delete(f, k) == [x \in DOMAIN f \ {k} |-> f[x]]
Has(f, k) == k \in DOMAIN f
EmptyMap == [x \in {} |-> 0]

----------------------------------------------------------------------------
(* Requests *)

NoDest == [kind |-> "none", path |-> <<>>]
UrlDest(p) == [kind |-> "url", path |-> p]
BadDest == [kind |-> "bad", path |-> <<>>]

Idle ==
    [pc |-> "idle", method |-> "", raw |-> <<>>, urlPath |-> <<>>, dest |-> NoDest,
     nowL |-> 0, kind |-> "", playlistName |-> <<>>, playlists |-> <<>>, playlist |-> <<>>,
     ids |-> <<>>, missing |-> <<>>, songId |-> 0, destPath |-> <<>>,
     reply |-> "", code |-> 0, status |-> 0, msg |-> "", body |-> <<>>, allow |-> {},
     calls |-> {}, faulted |-> FALSE, authed |-> FALSE, hit |-> FALSE,
     keywords |-> <<>>, failed |-> {}, lost |-> <<>>, log |-> <<>>,
     expect |-> <<>>, afterCopy |-> FALSE, added |-> {}, sent |-> 0]

(* the state a handler works on: the caches, the cache file, the remote    *)
(* service and the handler's own request                                   *)
Cur(t) ==
    [c |-> webdavCache, m |-> songPathMap, d |-> disk, u |-> upstream, k |-> tasks[t],
     r |-> Idle]

Commit(t, s) ==
    /\ webdavCache' = s.c
    /\ songPathMap' = s.m
    /\ disk' = s.d
    /\ upstream' = s.u
    /\ tasks' = [tasks EXCEPT ![t] = s.k]
    /\ response' = s.r

(* res.status(status).send(msg or body): the request is answered and its   *)
(* slot is free again; the response keeps what the request resolved, and   *)
(* how many times the step has sent                                        *)
send(s, status, msg, body) ==
    [s EXCEPT !.k = Idle,
              !.r = [Idle EXCEPT !.pc = "done", !.method = s.k.method, !.raw = s.k.raw,
                                 !.urlPath = s.k.urlPath, !.dest = s.k.dest,
                                 !.destPath = s.k.destPath, !.songId = s.k.songId,
                                 !.playlist = s.k.playlist, !.ids = s.k.ids,
                                 !.keywords = s.k.keywords, !.failed = s.k.failed,
                                 !.lost = s.k.lost, !.log = s.k.log,
                                 !.reply = s.k.reply, !.code = s.k.code,
                                 !.status = status, !.msg = msg, !.body = body,
                                 !.calls = s.k.calls, !.faulted = s.k.faulted,
                                 !.authed = s.k.authed, !.hit = s.k.hit,
                                 !.expect = s.k.expect, !.afterCopy = s.k.afterCopy,
                                 !.added = s.k.added, !.sent = s.r.sent + 1]]

(* the handler issues an upstream call and awaits its reply at pc *)
await(s, api, pc) ==
    [s EXCEPT !.k.calls = @ \cup {api}, !.k.log = Append(@, api), !.k.pc = pc]

(* saveCache, were the Path->SongId map left out of the file *)
saveCache_cacheOnly(s) == [s EXCEPT !.d.cache = s.c]

saveCache(s) == [s EXCEPT !.d = [cache |-> s.c, songPathMap |-> s.m]]

(* the reply of an upstream call has arrived: o is how the call ended; the *)
(* request keeps which of its awaits ended badly                          *)
got(s, o) ==
    IF o = "ok" THEN s
    ELSE [s EXCEPT !.u.faults = @ - 1, !.k.faulted = TRUE, !.k.failed = @ \cup {s.k.pc}]

(* error500, were a cached listing of the path served in place of the error *)
error500_staleFallback(s) ==
    IF s.k.method = "PROPFIND" /\ s.k.urlPath \in DOMAIN s.c.propfind
    THEN send(s, 207, "", s.c.propfind[s.k.urlPath].xml)
    ELSE send(s, 500, "Internal Server Error", <<>>)

error500(s) == send(s, 500, "Internal Server Error", <<>>)

----------------------------------------------------------------------------
(* handlePropfind, src/webdav.js:304-515 *)

Root == <<"/">>
DailySongsDir == <<"/", DailySongsName>>
DailyPlaylistsDir == <<"/", DailyPlaylistsName>>
MyPlaylistsDir == <<"/", MyPlaylistsName>>

Collection(name) == [name |-> name, col |-> TRUE]
File(name) == [name |-> name, col |-> FALSE]

(* one D:response of the multistatus body *)
xmlResponse(urlPath, r) ==
    LET resPath == IF r.name = <<>> THEN urlPath
                   ELSE (IF urlPath = Root THEN <<>> ELSE urlPath) \o <<"/">> \o r.name
        slashed == [i \in 1..Len(resPath) |-> IF resPath[i] = "\\" THEN "/" ELSE resPath[i]]
    IN [href |-> encodeURI(slashed \o (IF r.col /\ r.name # <<>> THEN <<"/">> ELSE <<>>)),
        displayname |-> IF r.name = <<>> THEN <<"/">> ELSE r.name,
        collection |-> r.col,
        contenttype |-> IF r.col THEN ""
                        ELSE IF endsWith(r.name, <<".flac">>) THEN "audio/flac" ELSE "audio/mpeg"]

(* buildObject, were the entry of the directory itself left out *)
buildObject_childrenOnly(urlPath, resources) ==
    [i \in 1..(Len(resources) - 1) |-> xmlResponse(urlPath, resources[i + 1])]

buildObject(urlPath, resources) ==
    [i \in 1..Len(resources) |-> xmlResponse(urlPath, resources[i])]

(* render, were a fresh entry that another request stored left in place *)
render_keepFirst(s, resources) ==
    LET xml == buildObject(s.k.urlPath, resources)
        p == s.k.urlPath
        kept == Has(s.c.propfind, p) /\ now - s.c.propfind[p].timestamp < refreshInterval
        s1 == IF kept THEN s
              ELSE [s EXCEPT !.c.propfind = Put(@, p, [xml |-> xml, timestamp |-> now])]
    IN send(saveCache(s1), 207, "", xml)

(* lines 481-514: serialize, store in the listing cache, save, answer 207 *)
render(s, resources) ==
    LET xml == buildObject(s.k.urlPath, resources)
        s1 == [s EXCEPT !.c.propfind = Put(@, s.k.urlPath, [xml |-> xml, timestamp |-> now])]
    IN send(saveCache(s1), 207, "", xml)

(* cachedDetails, were the songs taken in the reverse order of the ids *)
cachedDetails_reversed(s, ids) ==
    LET known == SelectIds(ids, DOMAIN s.c.songs)
    IN [i \in 1..Len(known) |-> s.c.songs[known[Len(known) + 1 - i]]]

(* ids.map(id => webdavCache.songs[id]).filter(Boolean) *)
cachedDetails(s, ids) ==
    LET known == SelectIds(ids, DOMAIN s.c.songs)
    IN [i \in 1..Len(known) |-> s.c.songs[known[i]]]

(* listSongs, were the path of a song that is in the map left as it is *)
listSongs_firstWins(s, dir, selfName) ==
    LET details == cachedDetails(s, s.k.ids)
        pathOf(i) == dir \o <<"/">> \o fileName(details[i])
        paths == {pathOf(i) : i \in 1..Len(details)}
        first(p) == CHOOSE i \in 1..Len(details) :
                       pathOf(i) = p /\ \A j \in 1..Len(details) : pathOf(j) = p => i <= j
        files == [i \in 1..Len(details) |-> File(fileName(details[i]))]
        s1 == [s EXCEPT !.m = [p \in DOMAIN s.m \cup paths |->
                                  IF p \in DOMAIN s.m THEN s.m[p]
                                  ELSE details[first(p)].id]]
    IN render(s1, <<Collection(selfName)>> \o files)

(* details.forEach: one file per song, and songPathMap.set(fullPath, s.id);  *)
(* of two songs with one path the later one stays in the map                 *)
listSongs(s, dir, selfName) ==
    LET details == cachedDetails(s, s.k.ids)
        pathOf(i) == dir \o <<"/">> \o fileName(details[i])
        paths == {pathOf(i) : i \in 1..Len(details)}
        last(p) == CHOOSE i \in 1..Len(details) :
                      pathOf(i) = p /\ \A j \in 1..Len(details) : pathOf(j) = p => j <= i
        files == [i \in 1..Len(details) |-> File(fileName(details[i]))]
        s1 == [s EXCEPT !.m = [p \in DOMAIN s.m \cup paths |->
                                  IF p \in paths THEN details[last(p)].id ELSE s.m[p]]]
    IN render(s1, <<Collection(selfName)>> \o files)

(* what follows the await of getSongsDetails in handlePropfind *)
afterDetails(s) ==
    IF s.k.kind = "daily" THEN listSongs(s, DailySongsDir, <<DailySongsName>>)
    ELSE listSongs(s, s.k.urlPath, s.k.playlistName)

(* getSongsDetails up to its first await, lines 154-162 *)
isMissing(s, id) ==
    \/ ~Has(s.c.songs, id)
    \/ now - s.c.songs[id].timestamp > metadataTTL

getSongsDetails(s, ids) ==
    LET missing == SelectIds(ids, {id \in Range(ids) : isMissing(s, id)})
        s1 == [s EXCEPT !.k.ids = ids, !.k.missing = missing]
    IN IF missing = <<>> THEN afterDetails(s1) ELSE await(s1, "song_detail", "songDetail")

(* songDetailReply, were a failed batch the end of the listing *)
songDetailReply_failFast(s, o) ==
    LET n == IF Len(s.k.missing) < BatchSize THEN Len(s.k.missing) ELSE BatchSize
        batch == SubSeq(s.k.missing, 1, n)
        rest == SubSeq(s.k.missing, n + 1, Len(s.k.missing))
        found == Range(batch) \cap DOMAIN s.u.songs
        s1 == [s EXCEPT !.c.songs = [id \in DOMAIN @ \cup found |->
                  IF id \in found
                  THEN [id |-> id, name |-> s.u.songs[id].name, ar |-> s.u.songs[id].ar,
                        timestamp |-> now]
                  ELSE @[id]]]
        s2 == [s1 EXCEPT !.k.missing = rest]
    IN IF o # "ok" THEN error500([s EXCEPT !.k.lost = @ \o batch])
       ELSE IF rest # <<>> THEN await(s2, "song_detail", "songDetail")
       ELSE afterDetails(saveCache(s2))

(* the reply to one batch, lines 160-178 *)
songDetailReply(s, o) ==
    LET n == IF Len(s.k.missing) < BatchSize THEN Len(s.k.missing) ELSE BatchSize
        batch == SubSeq(s.k.missing, 1, n)
        rest == SubSeq(s.k.missing, n + 1, Len(s.k.missing))
        found == Range(batch) \cap DOMAIN s.u.songs
        s1 == IF o = "ok"
              THEN [s EXCEPT !.c.songs = [id \in DOMAIN @ \cup found |->
                        IF id \in found
                        THEN [id |-> id, name |-> s.u.songs[id].name, ar |-> s.u.songs[id].ar,
                              timestamp |-> now]
                        ELSE @[id]]]
              ELSE [s EXCEPT !.k.lost = @ \o batch]
        s2 == [s1 EXCEPT !.k.missing = rest]
    IN IF rest # <<>> THEN await(s2, "song_detail", "songDetail")
       ELSE afterDetails(saveCache(s2))

(* fresh, were an entry still fresh when its age is refreshInterval *)
fresh_inclusive(entry, at) == at - entry.timestamp <= refreshInterval

fresh(entry, at) == at - entry.timestamp < refreshInterval

(* playlists.find(p => cleanName(p.name) === playlistName): <<>> or <<p>> *)
findPlaylist(playlists, playlistName) ==
    LET I == {i \in 1..Len(playlists) : cleanName(playlists[i].name) = playlistName}
    IN IF I = {} THEN <<>> ELSE <<playlists[CHOOSE i \in I : \A j \in I : i <= j]>>

(* once the playlist list is at hand: lines 349-352, 366-397, 411-414, 430-461 *)
withPlaylists(s, entry) ==
    IF ~entry.defined THEN error500(s)
    ELSE IF s.k.kind = "recRoot" \/ s.k.kind = "userRoot"
    THEN render(s, <<Collection(<<IF s.k.kind = "recRoot" THEN DailyPlaylistsName
                                   ELSE MyPlaylistsName>>)>>
                   \o [i \in 1..Len(entry.data) |-> Collection(cleanName(entry.data[i].name))])
    ELSE LET playlist == findPlaylist(entry.data, s.k.playlistName)
             s1 == [s EXCEPT !.k.playlist = playlist]
         IN IF playlist = <<>> THEN render(s1, <<>>)
            ELSE IF \/ ~Has(s.c.playlists, playlist[1].id)
                    \/ s.k.nowL - s.c.playlists[playlist[1].id].timestamp > refreshInterval
            THEN await(s1, "playlist_detail", "pfDetail")
            ELSE getSongsDetails(s1, s.c.playlists[playlist[1].id].trackIds)

handlePropfind(s) ==
    LET p == s.k.urlPath
        at(kind, name) == [s EXCEPT !.k.nowL = now, !.k.kind = kind, !.k.playlistName = name]
        lists(s1, entry, api, pc) ==
            IF fresh(entry, now) THEN withPlaylists(s1, entry) ELSE await(s1, api, pc)
        rec(s1) == lists(s1, s.c.recommendPlaylists, "recommend_resource", "pfRecList")
        user(s1) == lists(s1, s.c.userPlaylists, "login_status", "pfProfile")
    IN IF p = Root
       THEN render(s, <<Collection(<<>>), Collection(<<DailySongsName>>),
                        Collection(<<DailyPlaylistsName>>), Collection(<<MyPlaylistsName>>)>>)
       ELSE IF p = DailySongsDir
       THEN IF fresh(s.c.dailySongs, now)
            THEN IF s.c.dailySongs.defined
                 THEN getSongsDetails(at("daily", <<>>), s.c.dailySongs.data)
                 ELSE error500(s)
            ELSE await(at("daily", <<>>), "recommend_songs", "pfDailyList")
       ELSE IF p = DailyPlaylistsDir THEN rec(at("recRoot", <<>>))
       ELSE IF startsWith(p, DailyPlaylistsDir \o <<"/">>)
       THEN rec(at("rec", substring(p, Len(DailyPlaylistsDir) + 1)))
       ELSE IF p = MyPlaylistsDir THEN user(at("userRoot", <<>>))
       ELSE IF startsWith(p, MyPlaylistsDir \o <<"/">>)
       THEN user(at("user", substring(p, Len(MyPlaylistsDir) + 1)))
       ELSE IF endsWith(p, <<"/", "cover.jpg">>) \/ endsWith(p, <<"/", "folder.jpg">>)
       THEN render(s, <<File(basename(p))>>)
       ELSE IF Has(s.m, p) THEN render(s, <<File(basename(p))>>)
       ELSE send(s, 404, "Not Found", <<>>)

(* the reply of recommend_songs, lines 320-328 *)
pfDailyListReply(s, o) ==
    IF o = "throw" THEN error500(s)
    ELSE LET entry == [data |-> IF o = "ok" THEN upDailySongs ELSE <<>>,
                       defined |-> o = "ok", timestamp |-> s.k.nowL]
             s1 == saveCache([s EXCEPT !.c.dailySongs = entry])
         IN IF entry.defined THEN getSongsDetails(s1, entry.data) ELSE error500(s1)

(* the reply of recommend_resource (lines 344-348, 360-364) or of           *)
(* user_playlist (lines 406-409, 424-427)                                    *)
pfListReply(s, o, list) ==
    IF o = "throw" THEN error500(s)
    ELSE LET entry == [data |-> IF o = "ok" THEN list ELSE <<>>,
                       defined |-> o = "ok", timestamp |-> s.k.nowL]
             s1 == IF s.k.kind \in {"recRoot", "rec"}
                   THEN [s EXCEPT !.c.recommendPlaylists = entry]
                   ELSE [s EXCEPT !.c.userPlaylists = entry]
         IN withPlaylists(saveCache(s1), entry)

(* the reply of login_status, lines 404-406 and 422-424: reading userId of   *)
(* a null profile throws                                                     *)
pfProfileReply(s, o) ==
    IF o = "ok" /\ s.u.valid THEN await(s, "user_playlist", "pfUserList")
    ELSE error500([s EXCEPT !.k.faulted = TRUE])

(* the reply of playlist_detail, lines 370-385 and 434-449 *)
pfDetailReply(s, o) ==
    IF o # "ok" THEN error500(s)
    ELSE LET pl == s.k.playlist[1]
             cachedPlaylist == [name |-> pl.name, trackIds |-> s.u.tracks[pl.id],
                                timestamp |-> s.k.nowL]
             s1 == saveCache([s EXCEPT !.c.playlists = Put(@, pl.id, cachedPlaylist)])
         IN getSongsDetails(s1, cachedPlaylist.trackIds)

----------------------------------------------------------------------------
(* handleGet and handleCoverGet, src/webdav.js:517-599 (config.mode is      *)
(* 'speed', the default)                                                    *)

(* urlPath.match(/\/([^/]+)\s-\s([^/]+)\.(mp3|flac)$/): <<>> when there is   *)
(* no match, else <<keywords>> with keywords = match[1] + ' ' + match[2]     *)
songMatch(p) ==
    LET k == lastSlash(p)
        seg == substring(p, k)
        stem == SubSeq(seg, 1, Len(seg) - 1)
        I == {i \in 2..(Len(stem) - 3) :
                 stem[i] \in Whitespace /\ stem[i + 1] = "-" /\ stem[i + 2] \in Whitespace}
        at == CHOOSE i \in I : \A j \in I : j <= i
    IN IF k = 0 \/ seg = <<>> \/ seg[Len(seg)] \notin {".mp3", ".flac"} \/ I = {} THEN <<>>
       ELSE <<SubSeq(stem, 1, at - 1) \o <<" ">> \o SubSeq(stem, at + 3, Len(stem))>>

isCover(p) == endsWith(p, <<"/", "cover.jpg">>) \/ endsWith(p, <<"/", "folder.jpg">>)

dirname(p) == IF lastSlash(p) <= 1 THEN Root ELSE SubSeq(p, 1, lastSlash(p) - 1)

contentType(p) == IF endsWith(p, <<".flac">>) THEN "audio/flac" ELSE "audio/mpeg"

handleCoverGet(s) ==
    LET dirPath == dirname(s.k.urlPath)
        found == \E p \in DOMAIN s.m :
                    startsWith(p, dirPath \o <<"/">>) /\ Has(s.c.songs, s.m[p])
    IN IF ~found THEN send(s, 404, "Cover not found", <<>>)
       ELSE IF s.k.method = "HEAD" THEN send(s, 200, "image/jpeg", <<>>)
       ELSE send(s, 302, "redirect", <<>>)

(* handleGet, were the search asked whatever the map holds *)
handleGet_alwaysSearch(s) ==
    LET p == s.k.urlPath
        songId == IF Has(s.m, p) THEN s.m[p] ELSE 0
        s1 == [s EXCEPT !.k.songId = songId]
    IN IF isCover(p) THEN handleCoverGet(s)
       ELSE IF s.k.method = "HEAD" THEN send(s1, 200, contentType(p), <<>>)
       ELSE IF songMatch(p) # <<>>
       THEN await([s1 EXCEPT !.k.keywords = songMatch(p)[1]], "search", "getSearch")
       ELSE IF songId # 0 THEN await(s1, "song_url_v1", "getUrl")
       ELSE send(s1, 404, "Song not found", <<>>)

handleGet(s) ==
    LET p == s.k.urlPath
        songId == IF Has(s.m, p) THEN s.m[p] ELSE 0
        s1 == [s EXCEPT !.k.songId = songId]
    IN IF isCover(p) THEN handleCoverGet(s)
       ELSE IF s.k.method = "HEAD" THEN send(s1, 200, contentType(p), <<>>)
       ELSE IF songId # 0 THEN await(s1, "song_url_v1", "getUrl")
       ELSE IF songMatch(p) # <<>>
       THEN await([s1 EXCEPT !.k.keywords = songMatch(p)[1]], "search", "getSearch")
       ELSE send(s1, 404, "Song not found", <<>>)

(* the reply of the fallback search, lines 537-547 *)
getSearchReply(s, o) ==
    LET songs == IF o = "ok" THEN upSearch(s.k.keywords) ELSE <<>>
    IN IF songs # <<>> THEN await([s EXCEPT !.k.songId = songs[1]], "song_url_v1", "getUrl")
       ELSE send(s, 404, "Song not found", <<>>)

(* the reply of song_url_v1, lines 553-567 *)
getUrlReply(s, o) ==
    IF o = "ok" THEN send(s, 302, "redirect", <<>>) ELSE send(s, 404, "Song not found", <<>>)

----------------------------------------------------------------------------
(* handleCopyMove, src/webdav.js:231-302 *)

(* new URL(destination, base).pathname: escapes what is not yet escaped *)
pathname(raw) == [i \in 1..Len(raw) |-> IF raw[i] \in Escapable THEN "%" \o raw[i] ELSE raw[i]]

(* destPath.match(/^\/MyPlaylists\/([^/]+)/): <<>> or <<match[1]>> *)
destMatch(destPath) ==
    LET prefix == MyPlaylistsDir \o <<"/">>
        tail == substring(destPath, Len(prefix))
        J == {j \in 1..Len(tail) : tail[j] = "/"}
        end == IF J = {} THEN Len(tail) ELSE (CHOOSE j \in J : \A i \in J : j <= i) - 1
    IN IF startsWith(destPath, prefix) /\ end >= 1 THEN <<SubSeq(tail, 1, end)>> ELSE <<>>

(* invalidate, were it to delete the entry of the Destination path only *)
invalidate_destOnly(s) ==
    saveCache([s EXCEPT
        !.c.propfind = Delete(@, s.k.destPath),
        !.c.userPlaylists.timestamp = 0])

(* invalidate, were it to drop the paths of the playlist's directory too *)
invalidate_forgetsPaths(s) ==
    LET dir == MyPlaylistsDir \o <<"/">> \o s.k.playlistName
        kept == {p \in DOMAIN s.m : ~startsWith(p, dir \o <<"/">>)}
    IN saveCache([s EXCEPT
           !.c.propfind = Delete(Delete(@, s.k.destPath), dir),
           !.c.playlists = Delete(@, s.k.playlist[1].id),
           !.c.userPlaylists.timestamp = 0,
           !.m = [p \in kept |-> s.m[p]]])

(* lines 286-293: the cache invalidation of a successful COPY/MOVE *)
invalidate(s) ==
    saveCache([s EXCEPT
        !.c.propfind = Delete(Delete(@, s.k.destPath),
                              MyPlaylistsDir \o <<"/">> \o s.k.playlistName),
        !.c.playlists = Delete(@, s.k.playlist[1].id),
        !.c.userPlaylists.timestamp = 0])

(* withSong, were a missing source song a bad request *)
withSong_badRequest(s, songId) ==
    LET s1 == [s EXCEPT !.k.songId = songId]
    IN IF songId = 0 THEN send(s1, 400, "Source song not found", <<>>)
       ELSE await(s1, "login_status", "cpProfile")

(* lines 262-270, once the source song id is settled *)
withSong(s, songId) ==
    LET s1 == [s EXCEPT !.k.songId = songId]
    IN IF songId = 0 THEN send(s1, 404, "Source song not found", <<>>)
       ELSE await(s1, "login_status", "cpProfile")

(* handleCopyMove, were the source song resolved before the Destination is *)
(* looked at                                                               *)
handleCopyMove_resolveFirst(s) ==
    IF s.k.dest.kind = "none" THEN send(s, 400, "Destination header missing", <<>>)
    ELSE IF s.k.dest.kind = "bad" \/ ~decodable(pathname(s.k.dest.path)) THEN error500(s)
    ELSE LET destPath == stripSlash(decodeURIComponent(pathname(s.k.dest.path)))
             match == destMatch(destPath)
             s2 == [s EXCEPT !.k.destPath = destPath,
                             !.k.playlistName = IF match = <<>> THEN <<>> ELSE match[1]]
         IN IF Has(s.m, s.k.urlPath) /\ s.m[s.k.urlPath] # 0
            THEN withSong(s2, s.m[s.k.urlPath])
            ELSE IF songMatch(s.k.urlPath) # <<>> THEN await(s2, "search", "cpSearch")
            ELSE withSong(s2, 0)

handleCopyMove(s) ==
    IF s.k.dest.kind = "none" THEN send(s, 400, "Destination header missing", <<>>)
    ELSE IF s.k.dest.kind = "bad" \/ ~decodable(pathname(s.k.dest.path)) THEN error500(s)
    ELSE LET destPath == stripSlash(decodeURIComponent(pathname(s.k.dest.path)))
             match == destMatch(destPath)
             s1 == [s EXCEPT !.k.destPath = destPath]
         IN IF match = <<>>
            THEN send(s1, 403, "Only copying/moving to MyPlaylists is supported", <<>>)
            ELSE LET s2 == [s1 EXCEPT !.k.playlistName = match[1]]
                 IN IF Has(s.m, s.k.urlPath) /\ s.m[s.k.urlPath] # 0
                    THEN withSong(s2, s.m[s.k.urlPath])
                    ELSE IF songMatch(s.k.urlPath) # <<>> THEN await(s2, "search", "cpSearch")
                    ELSE withSong(s2, 0)

(* the reply of the fallback search, lines 255-265 *)
cpSearchReply(s, o) ==
    IF o = "throw" THEN error500(s)
    ELSE LET songs == IF o = "ok" THEN upSearch(songMatch(s.k.urlPath)[1]) ELSE <<>>
         IN withSong(s, IF songs # <<>> THEN songs[1] ELSE 0)

(* the reply of login_status, lines 268-270 *)
cpProfileReply(s, o) ==
    IF o = "ok" /\ s.u.valid THEN await(s, "user_playlist", "cpUserList")
    ELSE error500([s EXCEPT !.k.faulted = TRUE])

(* cpUserListReply, were it to fall back to the user's first playlist *)
cpUserListReply_firstPlaylist(s, o) ==
    IF o # "ok" THEN error500(s)
    ELSE LET found == findPlaylist(upUserPlaylists, s.k.playlistName)
             playlist == IF found = <<>> THEN <<upUserPlaylists[1]>> ELSE found
         IN await([s EXCEPT !.k.playlist = playlist], "playlist_tracks", "cpAdd")

(* the reply of user_playlist, lines 270-284 *)
cpUserListReply(s, o) ==
    IF o # "ok" THEN error500(s)
    ELSE LET playlist == findPlaylist(upUserPlaylists, s.k.playlistName)
         IN IF playlist = <<>> THEN send(s, 404, "Target playlist not found", <<>>)
            ELSE await([s EXCEPT !.k.playlist = playlist], "playlist_tracks", "cpAdd")

(* Node refuses a status code outside 100..999 when the response is sent *)
validStatus(code) == code >= 100 /\ code <= 999

(* cpAnswer, were the caches invalidated whatever the mutation came to *)
cpAnswer_alwaysInvalidate(s, o, code) ==
    IF o = "throw" THEN error500(invalidate(s))
    ELSE IF code = 200 \/ code = 502 THEN send(invalidate(s), 201, "Created", <<>>)
    ELSE IF code = 0 THEN send(invalidate(s), 500, "Error adding song to playlist", <<>>)
    ELSE IF validStatus(code)
    THEN send(invalidate(s), code, "Error adding song to playlist", <<>>)
    ELSE error500(invalidate(s))

(* cpAnswer, were 'already present' not a success *)
cpAnswer_only200(s, o, code) ==
    IF o = "throw" THEN error500(s)
    ELSE IF code = 200 THEN send(invalidate(s), 201, "Created", <<>>)
    ELSE IF code = 0 THEN send(s, 500, "Error adding song to playlist", <<>>)
    ELSE IF validStatus(code) THEN send(s, code, "Error adding song to playlist", <<>>)
    ELSE error500(s)

(* cpAnswer, were an exception of the mutation a bad gateway *)
cpAnswer_badGateway(s, o, code) ==
    IF o = "throw" THEN send(s, 502, "Bad Gateway", <<>>)
    ELSE IF code = 200 \/ code = 502 THEN send(invalidate(s), 201, "Created", <<>>)
    ELSE IF code = 0 THEN send(s, 500, "Error adding song to playlist", <<>>)
    ELSE IF validStatus(code) THEN send(s, code, "Error adding song to playlist", <<>>)
    ELSE error500(s)

(* the answer to the reply of playlist_tracks, lines 286-301; code is       *)
(* result.body.code, 0 when the reply has none                               *)
cpAnswer(s, o, code) ==
    IF o = "throw" THEN error500(s)
    ELSE IF code = 200 \/ code = 502 THEN send(invalidate(s), 201, "Created", <<>>)
    ELSE IF code = 0 THEN send(s, 500, "Error adding song to playlist", <<>>)
    ELSE IF validStatus(code) THEN send(s, code, "Error adding song to playlist", <<>>)
    ELSE error500(s)

----------------------------------------------------------------------------
(* The dispatcher, src/webdav.js:183-229, and checkLogin, lines 87-95 *)

(* the Allow header, were PUT advertised *)
AllowHeader_withPut == {"OPTIONS", "PROPFIND", "GET", "HEAD", "COPY", "MOVE", "PUT"}

AllowHeader == {"OPTIONS", "PROPFIND", "GET", "HEAD", "COPY", "MOVE"}

options(s) == [send(s, 200, "", <<>>) EXCEPT !.r.allow = AllowHeader]

(* unauthorized, were the listings dropped with the session *)
unauthorized_dropsListings(s) ==
    IF s.k.method = "OPTIONS" THEN options(s)
    ELSE send(saveCache([s EXCEPT !.c.propfind = EmptyMap]), 401, "Unauthorized", <<>>)

(* lines 187-197: checkLogin() returned false *)
unauthorized(s) ==
    IF s.k.method = "OPTIONS" THEN options(s) ELSE send(s, 401, "Unauthorized", <<>>)

(* route, were a served listing stamped with the time it was served at *)
route_touch(s0) ==
    LET s == [s0 EXCEPT !.k.authed = TRUE]
        m == s.k.method
        p == s.k.urlPath
    IN IF m = "OPTIONS" THEN options(s)
       ELSE IF m = "PROPFIND"
       THEN IF Has(s.c.propfind, p) /\ fresh(s.c.propfind[p], now)
            THEN send(saveCache([s EXCEPT !.k.hit = TRUE, !.c.propfind[p].timestamp = now]),
                      207, "", s.c.propfind[p].xml)
            ELSE handlePropfind(s)
       ELSE IF m = "GET" \/ m = "HEAD" THEN handleGet(s)
       ELSE IF m = "COPY" \/ m = "MOVE" THEN handleCopyMove(s)
       ELSE send(s, 405, "Method Not Allowed", <<>>)

(* route, were the listing cache never asked *)
route_noCache(s0) ==
    LET s == [s0 EXCEPT !.k.authed = TRUE]
        m == s.k.method
    IN IF m = "OPTIONS" THEN options(s)
       ELSE IF m = "PROPFIND" THEN handlePropfind(s)
       ELSE IF m = "GET" \/ m = "HEAD" THEN handleGet(s)
       ELSE IF m = "COPY" \/ m = "MOVE" THEN handleCopyMove(s)
       ELSE send(s, 405, "Method Not Allowed", <<>>)

(* lines 199-228: checkLogin() returned true *)
route(s0) ==
    LET s == [s0 EXCEPT !.k.authed = TRUE]
        m == s.k.method
        p == s.k.urlPath
    IN IF m = "OPTIONS" THEN options(s)
       ELSE IF m = "PROPFIND"
       THEN IF Has(s.c.propfind, p) /\ fresh(s.c.propfind[p], now)
            THEN send([s EXCEPT !.k.hit = TRUE], 207, "", s.c.propfind[p].xml)
            ELSE handlePropfind(s)
       ELSE IF m = "GET" \/ m = "HEAD" THEN handleGet(s)
       ELSE IF m = "COPY" \/ m = "MOVE" THEN handleCopyMove(s)
       ELSE send(s, 405, "Method Not Allowed", <<>>)

(* a request arrives; line 185 throws on a path that cannot be decoded and *)
(* the request is then never answered                                      *)
request(s, method, raw, dest) ==
    LET k == [s.k EXCEPT !.method = method, !.raw = raw, !.dest = dest]
    IN IF ~decodable(raw) THEN [s EXCEPT !.k = [k EXCEPT !.pc = "hung"]]
       ELSE LET s1 == [s EXCEPT !.k = [k EXCEPT !.urlPath = urlPathOf(raw)]]
            IN IF userCookie = "" THEN unauthorized(s1)
               ELSE await(s1, "login_status", "checkLogin")

(* checkLoginReply, were any reply of login_status a login *)
checkLoginReply_anyProfile(s, o) == IF o = "ok" THEN route(s) ELSE unauthorized(s)

(* the reply of checkLogin's login_status *)
checkLoginReply(s, o) == IF o = "ok" /\ s.u.valid THEN route(s) ELSE unauthorized(s)

----------------------------------------------------------------------------
(* What the clients have observed: the body and time of the latest listing  *)
(* rendered for each path, how often each COPY/MOVE was answered 201,       *)
(* whether one was since the user-playlist root was last asked for, the     *)
(* status each cause of a failed COPY/MOVE was answered with, the songs    *)
(* that a COPY/MOVE answered 201 has put into each playlist directory, and  *)
(* and, for an observer with a stopwatch, the time at which playlist_detail  *)
(* last returned each playlist's tracks.  That observer notes a rendered     *)
(* listing with the time its request started at and the time the tracks it  *)
(* shows were fetched at (-1 for a listing that shows no playlist's tracks). *)
(* Whether the server has been started again is noted too.                  *)

NoHistory ==
    [listed |-> EmptyMap, favorited |-> EmptyMap, stale |-> FALSE, failures |-> {},
     created |-> {}, timed |-> FALSE, fetched |-> EmptyMap, reloaded |-> FALSE]

Stopwatch == [NoHistory EXCEPT !.timed = TRUE]

(* the Date.now() a handler took at its start *)
StartedAt(t) == IF tasks[t].pc = "checkLogin" THEN now ELSE tasks[t].nowL

(* playlist_detail returned the tracks of the playlist that t lists *)
Fetched(h, t, o) ==
    IF h.timed /\ o = "ok"
    THEN [h EXCEPT !.fetched = Put(@, tasks[t].playlist[1].id, now)] ELSE h

TracksAt(h, r) ==
    IF r.playlist # <<>> /\ Has(h.fetched, r.playlist[1].id)
    THEN h.fetched[r.playlist[1].id] ELSE -1

IsCopy(r) == r.pc = "done" /\ r.method \in {"COPY", "MOVE"}

(* why a COPY/MOVE failed: the source song was not found, the destination *)
(* playlist was not found, or upstream rejected the add-track mutation    *)
Cause(r) ==
    IF ~IsCopy(r) \/ r.status = 201 THEN ""
    ELSE IF r.reply = "nofield" THEN "mutation"
    ELSE IF r.faulted \/ destMatch(r.destPath) = <<>> THEN ""
    ELSE IF r.songId = 0 THEN "source"
    ELSE IF r.playlist = <<>> /\ "user_playlist" \in r.calls THEN "playlist"
    ELSE ""

Observe(h, r, startedAt) ==
    IF r.pc # "done" THEN h
    ELSE LET pair == <<r.raw, r.dest>>
             created == IsCopy(r) /\ r.status = 201
         IN [h EXCEPT
               !.listed = IF r.method = "PROPFIND" /\ r.status = 207 /\ ~r.hit
                          THEN Put(@, r.urlPath, [body |-> r.body, at |-> now,
                                                  startedAt |-> IF h.timed THEN startedAt
                                                                ELSE -1,
                                                  tracksAt |-> TracksAt(h, r)])
                          ELSE @,
               !.favorited = IF created THEN Put(@, pair, IF Has(@, pair) THEN 2 ELSE 1)
                             ELSE @,
               !.stale = @ \/ created,
               !.failures = IF Cause(r) # "" THEN @ \cup {<<Cause(r), r.status>>} ELSE @,
               !.created = IF created
                           THEN @ \cup {<<MyPlaylistsDir \o <<"/">>
                                             \o cleanName(r.playlist[1].name), r.songId>>}
                           ELSE @]

(* what a client expects of the request it sends now *)
Expecting(method, raw) ==
    LET p == IF decodable(raw) THEN urlPathOf(raw) ELSE <<>>
        listing == method = "PROPFIND" /\ Has(history.listed, p)
                   /\ now - history.listed[p].at < refreshInterval
    IN [Idle EXCEPT !.expect = IF listing THEN <<history.listed[p].body>> ELSE <<>>,
                    !.afterCopy = method = "PROPFIND" /\ p = MyPlaylistsDir /\ history.stale,
                    !.added = IF method = "PROPFIND"
                              THEN {c[2] : c \in {d \in history.created : d[1] = p}}
                              ELSE {}]

----------------------------------------------------------------------------
(* Actions *)

Request(method, raw, dest) == [method |-> method, raw |-> raw, dest |-> dest]

Arrive(t, r) ==
    /\ tasks[t].pc = "idle"
    /\ \A u \in Tasks : u < t => tasks[u].pc # "idle"
    /\ started < MaxRequests
    /\ started' = started + 1
    /\ LET k == Expecting(r.method, r.raw)
           s == request([Cur(t) EXCEPT !.k = k], r.method, r.raw, r.dest)
       IN /\ Commit(t, s)
          /\ history' = Observe([history EXCEPT !.stale = @ /\ ~k.afterCopy], s.r, now)
    /\ UNCHANGED <<now, userCookie>>

(* the reply awaited at pc arrives and ends as o *)
Replied(t, pc, o) ==
    /\ tasks[t].pc = pc
    /\ o \in Outcomes
    /\ o # "ok" => upstream.faults > 0

Resume(t, s) ==
    /\ Commit(t, s)
    /\ history' = Observe(history, s.r, StartedAt(t))
    /\ UNCHANGED <<now, userCookie, started>>

CheckLoginReply(t, o) ==
    Replied(t, "checkLogin", o) /\ Resume(t, checkLoginReply(got(Cur(t), o), o))

PfDailyListReply(t, o) ==
    Replied(t, "pfDailyList", o) /\ Resume(t, pfDailyListReply(got(Cur(t), o), o))

PfRecListReply(t, o) ==
    Replied(t, "pfRecList", o) /\ Resume(t, pfListReply(got(Cur(t), o), o, upRecommend))

PfProfileReply(t, o) ==
    Replied(t, "pfProfile", o) /\ Resume(t, pfProfileReply(got(Cur(t), o), o))

PfUserListReply(t, o) ==
    Replied(t, "pfUserList", o) /\ Resume(t, pfListReply(got(Cur(t), o), o, upUserPlaylists))

PfDetailReply(t, o) ==
    /\ Replied(t, "pfDetail", o)
    /\ LET s == pfDetailReply(got(Cur(t), o), o)
       IN Commit(t, s) /\ history' = Observe(Fetched(history, t, o), s.r, StartedAt(t))
    /\ UNCHANGED <<now, userCookie, started>>

SongDetailReply(t, o) ==
    Replied(t, "songDetail", o) /\ Resume(t, songDetailReply(got(Cur(t), o), o))

GetSearchReply(t, o) ==
    Replied(t, "getSearch", o) /\ Resume(t, getSearchReply(got(Cur(t), o), o))

GetUrlReply(t, o) ==
    Replied(t, "getUrl", o) /\ Resume(t, getUrlReply(got(Cur(t), o), o))

CpSearchReply(t, o) ==
    Replied(t, "cpSearch", o) /\ Resume(t, cpSearchReply(got(Cur(t), o), o))

CpProfileReply(t, o) ==
    Replied(t, "cpProfile", o) /\ Resume(t, cpProfileReply(got(Cur(t), o), o))

CpUserListReply(t, o) ==
    Replied(t, "cpUserList", o) /\ Resume(t, cpUserListReply(got(Cur(t), o), o))

(* the remote service runs the add-track mutation and replies: code 502   *)
(* when the track is already in the playlist, else the track is put first *)
(* and the code is 200; or it rejects the mutation with a code            *)
playlistTracks(s, o, code) ==
    LET pid == s.k.playlist[1].id
    IN IF o = "ok" /\ code = 200
       THEN [s EXCEPT !.u.tracks[pid] = <<s.k.songId>> \o @, !.k.code = code, !.k.reply = o]
       ELSE [s EXCEPT !.k.code = code, !.k.reply = o]

CpAddReply(t, o, code) ==
    /\ Replied(t, "cpAdd", o)
    /\ LET present == tasks[t].songId \in Range(upstream.tracks[tasks[t].playlist[1].id])
       IN code \in (IF o = "ok" THEN {IF present THEN 502 ELSE 200}
                    ELSE IF o = "nofield" THEN RejectCodes ELSE {0})
    /\ Resume(t, cpAnswer(playlistTracks(got(Cur(t), o), o, code), o, code))

Tick ==
    /\ now < StartTime + MaxTicks * TickStep
    /\ now' = now + TickStep
    /\ response' = Idle
    /\ UNCHANGED <<userCookie, upstream, webdavCache, songPathMap, disk, tasks, started,
                   history>>

(* the server is stopped and started again, lines 52-71 and 83-85: the    *)
(* requests in flight are lost, the caches and the Path->SongId map are   *)
(* read from the cache file and the cookie from the cookie file           *)
Restart ==
    /\ webdavCache' = disk.cache
    /\ songPathMap' = disk.songPathMap
    /\ tasks' = [t \in Tasks |-> Idle]
    /\ response' = Idle
    /\ history' = [history EXCEPT !.reloaded = TRUE]
    /\ UNCHANGED <<now, userCookie, upstream, disk, started>>

(* the remote service revokes the session *)
Revoke ==
    /\ upstream.valid
    /\ upstream' = [upstream EXCEPT !.valid = FALSE]
    /\ response' = Idle
    /\ UNCHANGED <<now, userCookie, webdavCache, songPathMap, disk, tasks, started, history>>

(* login(), lines 97-134, succeeds: a fresh cookie of a valid session *)
Login ==
    /\ ~upstream.valid
    /\ userCookie' = "cookie"
    /\ upstream' = [upstream EXCEPT !.valid = TRUE]
    /\ response' = Idle
    /\ UNCHANGED <<now, webdavCache, songPathMap, disk, tasks, started, history>>

----------------------------------------------------------------------------
(* The initial state: no cache file (lines 52-71); the cookie file is       *)
(* there or not (lines 83-85)                                               *)

EmptyList == [data |-> <<>>, defined |-> TRUE, timestamp |-> 0]

InitialCache ==
    [songs |-> EmptyMap, playlists |-> EmptyMap, userPlaylists |-> EmptyList,
     recommendPlaylists |-> EmptyList, dailySongs |-> EmptyList, propfind |-> EmptyMap]

(* the server starts with one of the cookies and upstream may fail faults *)
(* of its calls                                                           *)
BootWith(cookies, faults, tracks, songs) ==
    /\ now = StartTime
    /\ userCookie \in cookies
    /\ upstream = [valid |-> userCookie # "", tracks |-> tracks, songs |-> songs,
                   faults |-> faults]
    /\ webdavCache = InitialCache
    /\ songPathMap = EmptyMap
    /\ disk = [cache |-> InitialCache, songPathMap |-> EmptyMap]
    /\ tasks = [t \in Tasks |-> Idle]
    /\ response = Idle
    /\ started = 0

Boot(cookies, faults) ==
    BootWith(cookies, faults, upInitialTracks, upSongs) /\ history = NoHistory

Init == Boot({"", "cookie"}, MaxFaults)

----------------------------------------------------------------------------
(* Requests a client sends: the paths are hrefs as encodeURI writes them *)

song1 == fileName(upSongs[1])
song2 == fileName(upSongs[2])
hrefDir(p) == encodeURI(p \o <<"/">>)
hrefFile(dir, name) == encodeURI(dir \o <<"/">> \o name)
PlaylistP == MyPlaylistsDir \o <<"/", "p">>
PlaylistQ == MyPlaylistsDir \o <<"/", "q">>
PlaylistR == DailyPlaylistsDir \o <<"/", "r">>

Verbs == {"OPTIONS", "PROPFIND", "GET", "HEAD", "COPY", "MOVE", "PUT"}
AddCodes == {200, 502} \cup RejectCodes

(* favoriting next to listings: requests of several clients at a time *)
FavMenu ==
    {Request("PROPFIND", hrefDir(MyPlaylistsDir), NoDest),
     Request("PROPFIND", hrefDir(PlaylistP), NoDest),
     Request("COPY", hrefFile(DailySongsDir, song1), UrlDest(hrefDir(PlaylistP)))}

(* logged in, and every upstream call succeeds *)
InitFav == Boot({"cookie"}, 0)

NextFav ==
    \/ \E t \in Tasks, r \in FavMenu : Arrive(t, r)
    \/ \E t \in Tasks, o \in Outcomes :
          \/ CheckLoginReply(t, o)
          \/ PfProfileReply(t, o)
          \/ PfUserListReply(t, o)
          \/ PfDetailReply(t, o)
          \/ SongDetailReply(t, o)
          \/ CpSearchReply(t, o)
          \/ CpProfileReply(t, o)
          \/ CpUserListReply(t, o)
          \/ \E code \in AddCodes : CpAddReply(t, o, code)
    \/ Tick

SpecFav == InitFav /\ [][NextFav]_vars

(* COPY/MOVE in every form, sent by a client that awaits each answer *)
CopyMenu ==
    {Request("PROPFIND", hrefDir(PlaylistP), NoDest),
     Request("COPY", hrefFile(DailySongsDir, song1), UrlDest(hrefDir(PlaylistP))),
     Request("COPY", hrefFile(DailySongsDir, song1), UrlDest(hrefFile(PlaylistP, song1))),
     Request("COPY", hrefFile(DailySongsDir, song1), UrlDest(hrefDir(PlaylistQ))),
     Request("COPY", hrefFile(DailySongsDir, song1), UrlDest(hrefDir(DailySongsDir))),
     Request("COPY", hrefFile(DailySongsDir, song1), UrlDest(hrefDir(MyPlaylistsDir))),
     Request("COPY", hrefFile(DailySongsDir, song1), NoDest),
     Request("COPY", hrefFile(DailySongsDir, song1), BadDest),
     Request("COPY", hrefFile(DailySongsDir, <<"q">> \o Dash \o <<"x", ".mp3">>),
             UrlDest(hrefDir(PlaylistP))),
     Request("COPY", hrefFile(DailySongsDir, <<"q">>), UrlDest(hrefDir(PlaylistP))),
     Request("MOVE", hrefFile(PlaylistP, song2), UrlDest(hrefDir(PlaylistP)))}

AllIdle == \A t \in Tasks : tasks[t].pc = "idle"

NextCopy ==
    \/ \E t \in Tasks, r \in CopyMenu : AllIdle /\ Arrive(t, r)
    \/ \E t \in Tasks, o \in Outcomes :
          \/ CheckLoginReply(t, o)
          \/ PfProfileReply(t, o)
          \/ PfUserListReply(t, o)
          \/ PfDetailReply(t, o)
          \/ SongDetailReply(t, o)
          \/ CpSearchReply(t, o)
          \/ CpProfileReply(t, o)
          \/ CpUserListReply(t, o)
          \/ \E code \in AddCodes : CpAddReply(t, o, code)
    \/ Tick

(* logged in, and upstream calls may fail *)
InitCopy == Boot({"cookie"}, MaxFaults)

SpecCopy == InitCopy /\ [][NextCopy]_vars

(* every verb on the root while the session comes and goes *)
AuthMenu == {Request(verb, hrefDir(<<>>), NoDest) : verb \in Verbs}

NextAuth ==
    \/ \E t \in Tasks, r \in AuthMenu : Arrive(t, r)
    \/ \E t \in Tasks, o \in Outcomes : CheckLoginReply(t, o)
    \/ Revoke
    \/ Login

SpecAuth == Init /\ [][NextAuth]_vars

(* a client that browses: it asks for a directory it knows of, or for an  *)
(* entry of a listing it was given, and awaits each answer                *)
Directories == {<<>>, DailySongsDir, DailyPlaylistsDir, PlaylistR, MyPlaylistsDir, PlaylistP}

ListedEntries == UNION {Range(webdavCache.propfind[p].xml) : p \in DOMAIN webdavCache.propfind}

ListMenu ==
    {Request("PROPFIND", hrefDir(d), NoDest) : d \in Directories}
    \cup {Request(verb, e.href, NoDest) : verb \in {"PROPFIND", "HEAD"}, e \in ListedEntries}
    \cup {Request("GET", e.href, NoDest) : e \in {f \in ListedEntries : ~f.collection}}

NextList ==
    \/ \E t \in Tasks, r \in ListMenu : AllIdle /\ Arrive(t, r)
    \/ \E t \in Tasks, o \in Outcomes :
          \/ CheckLoginReply(t, o)
          \/ PfDailyListReply(t, o)
          \/ PfRecListReply(t, o)
          \/ PfProfileReply(t, o)
          \/ PfUserListReply(t, o)
          \/ PfDetailReply(t, o)
          \/ SongDetailReply(t, o)
          \/ GetUrlReply(t, o)

SpecList == InitFav /\ [][NextList]_vars

(* a recommended playlist of more songs than one song_detail call takes, *)
(* listed again and again while upstream calls may fail                  *)
BatchMenu == {Request("PROPFIND", hrefDir(PlaylistR), NoDest)}

InitBatch ==
    /\ BootWith({"cookie"}, MaxFaults, [upInitialTracks EXCEPT ![10] = BulkTracks],
                upBulkSongs)
    /\ history = NoHistory

NextBatch ==
    \/ \E t \in Tasks, r \in BatchMenu : AllIdle /\ Arrive(t, r)
    \/ \E t \in Tasks, o \in Outcomes :
          \/ CheckLoginReply(t, o)
          \/ PfRecListReply(t, o)
          \/ PfDetailReply(t, o)
          \/ SongDetailReply(t, o)
    \/ Tick

SpecBatch == InitBatch /\ [][NextBatch]_vars

(* a client that browses and plays while upstream calls may fail: known  *)
(* and unknown directories, and files with and without a song behind     *)
NoSong == <<"q">> \o Dash \o <<"x", ".mp3">>

BrowseMenu ==
    {Request("PROPFIND", hrefDir(d), NoDest) :
        d \in {<<>>, DailySongsDir, PlaylistP, PlaylistQ, PlaylistP \o <<"/", "x">>, <<"/", "x">>}}
    \cup {Request(verb, hrefFile(DailySongsDir, f), NoDest) :
             verb \in {"GET", "HEAD"}, f \in {song1, NoSong}}

NextBrowse ==
    \/ \E t \in Tasks, r \in BrowseMenu : AllIdle /\ Arrive(t, r)
    \/ \E t \in Tasks, o \in Outcomes :
          \/ CheckLoginReply(t, o)
          \/ PfDailyListReply(t, o)
          \/ PfProfileReply(t, o)
          \/ PfUserListReply(t, o)
          \/ PfDetailReply(t, o)
          \/ SongDetailReply(t, o)
          \/ GetSearchReply(t, o)
          \/ GetUrlReply(t, o)
    \/ Tick

SpecBrowse == InitCopy /\ [][NextBrowse]_vars

(* every verb, and a COPY that reaches the add-track mutation, with and *)
(* without a credential                                                 *)
VerbMenu ==
    AuthMenu \cup {Request("COPY", hrefFile(DailySongsDir, song1), UrlDest(hrefDir(PlaylistP)))}

NextVerbs ==
    \/ \E t \in Tasks, r \in VerbMenu : AllIdle /\ Arrive(t, r)
    \/ \E t \in Tasks, o \in Outcomes :
          \/ CheckLoginReply(t, o)
          \/ CpSearchReply(t, o)
          \/ CpProfileReply(t, o)
          \/ CpUserListReply(t, o)
          \/ \E code \in AddCodes : CpAddReply(t, o, code)

SpecVerbs == Init /\ [][NextVerbs]_vars

(* the daily songs listed, and the listed files fetched, for every title *)
(* and artist the first song can have                                    *)
MaxNameLen == 2
NameAlphabet == Illegal \cup {"b", " "}
Titles == UNION {[1..n -> NameAlphabet] : n \in 0..MaxNameLen}
Artists == {<<>>, <<"x">>, <<"/">>, <<"x", "|">>}

NamesMenu ==
    {Request("PROPFIND", hrefDir(DailySongsDir), NoDest)}
    \cup {Request("GET", encodeURI(p), NoDest) : p \in DOMAIN songPathMap}

InitNames ==
    \E title \in Titles, artist \in Artists :
       /\ BootWith({"cookie"}, 0, upInitialTracks,
                   [upSongs EXCEPT ![1] = [id |-> 1, name |-> title, ar |-> artist]])
       /\ history = NoHistory

NextNames ==
    \/ \E t \in Tasks, r \in NamesMenu : AllIdle /\ Arrive(t, r)
    \/ \E t \in Tasks, o \in Outcomes :
          \/ CheckLoginReply(t, o)
          \/ PfDailyListReply(t, o)
          \/ SongDetailReply(t, o)
          \/ GetUrlReply(t, o)

SpecNames == InitNames /\ [][NextNames]_vars

(* the directories of songs listed while songs are favorited, upstream *)
(* calls may fail and the server may be started again at any time      *)
PathsMenu ==
    {Request("PROPFIND", hrefDir(DailySongsDir), NoDest),
     Request("PROPFIND", hrefDir(PlaylistP), NoDest),
     Request("COPY", hrefFile(DailySongsDir, song1), UrlDest(hrefDir(PlaylistP)))}

NextPaths ==
    \/ \E t \in Tasks, r \in PathsMenu : AllIdle /\ Arrive(t, r)
    \/ \E t \in Tasks, o \in Outcomes :
          \/ CheckLoginReply(t, o)
          \/ PfDailyListReply(t, o)
          \/ PfProfileReply(t, o)
          \/ PfUserListReply(t, o)
          \/ PfDetailReply(t, o)
          \/ SongDetailReply(t, o)
          \/ CpSearchReply(t, o)
          \/ CpProfileReply(t, o)
          \/ CpUserListReply(t, o)
          \/ \E code \in AddCodes : CpAddReply(t, o, code)
    \/ Tick
    \/ Restart

SpecPaths == InitCopy /\ [][NextPaths]_vars

(* every verb and every kind of path, a path that cannot be decoded among *)
(* them, while upstream calls may fail; every call that a request awaits  *)
(* returns or throws in the end                                           *)
LiveMenu ==
    {Request(verb, hrefDir(<<>>), NoDest) : verb \in {"OPTIONS", "PUT", "PROPFIND"}}
    \cup {Request("PROPFIND", hrefDir(d), NoDest) : d \in {DailySongsDir, PlaylistP}}
    \cup {Request(verb, hrefFile(DailySongsDir, f), NoDest) :
             verb \in {"GET", "HEAD"}, f \in {song1, NoSong, <<"cover.jpg">>}}
    \cup {Request("COPY", hrefFile(DailySongsDir, song1), dest) :
             dest \in {UrlDest(hrefDir(PlaylistP)), UrlDest(hrefDir(PlaylistQ)), NoDest}}
    \cup {Request("GET", <<"/", "%">>, NoDest)}

(* the reply that request t awaits arrives *)
Reply(t) ==
    \E o \in Outcomes :
       \/ CheckLoginReply(t, o)
       \/ PfDailyListReply(t, o)
       \/ PfProfileReply(t, o)
       \/ PfUserListReply(t, o)
       \/ PfDetailReply(t, o)
       \/ SongDetailReply(t, o)
       \/ GetSearchReply(t, o)
       \/ GetUrlReply(t, o)
       \/ CpSearchReply(t, o)
       \/ CpProfileReply(t, o)
       \/ CpUserListReply(t, o)
       \/ \E code \in AddCodes : CpAddReply(t, o, code)

NextLive ==
    \/ \E t \in Tasks, r \in LiveMenu : AllIdle /\ Arrive(t, r)
    \/ \E t \in Tasks : Reply(t)

SpecLive == InitCopy /\ [][NextLive]_vars /\ \A t \in Tasks : WF_vars(Reply(t))

(* one playlist directory listed again and again over a time in which its *)
(* listing, its snapshot and the playlist list all expire                 *)
StaleMenu == {Request("PROPFIND", hrefDir(PlaylistP), NoDest)}

Later ==
    /\ now < StartTime + (MaxTicks + 2) * TickStep
    /\ now' = now + TickStep
    /\ response' = Idle
    /\ UNCHANGED <<userCookie, upstream, webdavCache, songPathMap, disk, tasks, started,
                   history>>

NextStale ==
    \/ \E t \in Tasks, r \in StaleMenu : AllIdle /\ Arrive(t, r)
    \/ \E t \in Tasks, o \in Outcomes :
          \/ CheckLoginReply(t, o)
          \/ PfProfileReply(t, o)
          \/ PfUserListReply(t, o)
          \/ PfDetailReply(t, o)
          \/ SongDetailReply(t, o)
    \/ Later

(* logged in, every upstream call succeeds, and the observer keeps times *)
InitStale == BootWith({"cookie"}, 0, upInitialTracks, upSongs) /\ history = Stopwatch

SpecStale == InitStale /\ [][NextStale]_vars

----------------------------------------------------------------------------
(* Properties.  A state predicate over response speaks of the request that *)
(* the last step answered; a primed formula speaks of one step.            *)

Answered == response.pc = "done"

(* the playlist directory a COPY/MOVE was answered for *)
DirectoryOf(r) == MyPlaylistsDir \o <<"/">> \o cleanName(r.playlist[1].name)

(* C1: path round trip.  Every href that a 207 listing returned as an      *)
(* entry (the entry of the directory itself included) resolves: a later    *)
(* GET, HEAD or PROPFIND of exactly that path, with no COPY/MOVE in        *)
(* between and every upstream call succeeding, is not answered 404.        *)
C1_ListedPathResolves ==
    /\ Answered
    /\ response.method \in {"GET", "HEAD", "PROPFIND"}
    /\ \E e \in ListedEntries : e.href = response.raw
    /\ ~response.faulted
    => response.status # 404

(* the step is the dispatcher's continuation of task t after checkLogin *)
Dispatched(t) == tasks[t].pc = "checkLogin" /\ tasks'[t] # tasks[t]

(* the answer of the dispatcher to a request whose checkLogin failed: 200  *)
(* with the Allow header (the DAV header is set along with it) to OPTIONS, *)
(* 401 to any other verb, and no call beyond those of checkLogin           *)
Refused(r, calls) ==
    /\ r.pc = "done"
    /\ r.status = (IF r.method = "OPTIONS" THEN 200 ELSE 401)
    /\ r.method = "OPTIONS" => r.allow = AllowHeader
    /\ r.calls = calls
    /\ ~r.authed

(* C2: unauthenticated boundary.  Whenever checkLogin fails (there is no   *)
(* credential, or upstream rejects the credential, or the login-status     *)
(* call fails) OPTIONS is answered 200 with the Allow header and every     *)
(* other verb 401, no handler is reached, no catalog call is issued and    *)
(* no cache is touched.                                                    *)
C2_UnauthenticatedBoundary ==
    [][/\ (started' # started /\ userCookie = "") =>
             Refused(response', {}) /\ UNCHANGED <<webdavCache, songPathMap, disk>>
       /\ \A t \in Tasks :
             (Dispatched(t) /\ (~upstream.valid \/ upstream'.faults # upstream.faults)) =>
                 /\ Refused(response', {"login_status"})
                 /\ tasks'[t] = Idle
                 /\ UNCHANGED <<webdavCache, songPathMap, disk>>]_vars

(* C2 witness: a PROPFIND whose credential upstream rejected got 401 *)
C2_Witness ==
    /\ Answered
    /\ response.method = "PROPFIND"
    /\ response.status = 401
    /\ response.calls = {"login_status"}
    /\ ~response.faulted
    /\ ~upstream.valid

(* C3 as stated: once a PROPFIND of P was answered 207 and its payload     *)
(* cached at t, every PROPFIND of P issued while now - t < refreshInterval *)
(* is answered 207 with the very same body, whatever requests interleave.  *)
C3_SameBodyWithinWindow ==
    (Answered /\ response.method = "PROPFIND" /\ response.expect # <<>>)
    => (response.status = 207 /\ response.body = response.expect[1])

(* C3 amended: a PROPFIND of P dispatched while the listing cache holds an *)
(* entry of P younger than refreshInterval is answered 207 with exactly    *)
(* the cached payload, with no upstream call beyond checkLogin and no      *)
(* change of the caches; and the payload of every 207 answer to a PROPFIND *)
(* of P is the payload the cache holds for P.                              *)
C3_FreshEntryIsServed ==
    [][/\ \A t \in Tasks :
             LET p == tasks[t].urlPath
             IN (/\ Dispatched(t)
                 /\ tasks[t].method = "PROPFIND"
                 /\ upstream.valid /\ upstream'.faults = upstream.faults
                 /\ Has(webdavCache.propfind, p)
                 /\ now - webdavCache.propfind[p].timestamp < refreshInterval)
                => /\ response'.pc = "done"
                   /\ response'.status = 207
                   /\ response'.body = webdavCache.propfind[p].xml
                   /\ response'.calls = {"login_status"}
                   /\ UNCHANGED <<webdavCache, songPathMap, disk>>
       /\ (response'.pc = "done" /\ response'.method = "PROPFIND" /\ response'.status = 207)
          => /\ Has(webdavCache'.propfind, response'.urlPath)
             /\ webdavCache'.propfind[response'.urlPath].xml = response'.body]_vars

(* C3 witness: a PROPFIND was served from the cache the body its client *)
(* had seen before                                                      *)
C3_Witness ==
    /\ Answered
    /\ response.method = "PROPFIND"
    /\ response.hit
    /\ response.status = 207
    /\ response.expect = <<response.body>>
    /\ response.body # <<>>

(* the caches hold nothing of the playlist a COPY/MOVE was answered for *)
Invalidated(r) ==
    /\ ~Has(webdavCache.propfind, r.destPath)
    /\ ~Has(webdavCache.propfind, DirectoryOf(r))
    /\ ~Has(webdavCache.playlists, r.playlist[1].id)
    /\ webdavCache.userPlaylists.timestamp = 0
    /\ disk.cache = webdavCache

(* C4: idempotent favoriting.  A COPY/MOVE whose add-track mutation        *)
(* upstream answers with 200, or with 502 'already present' as it does for *)
(* the second of two equal COPYs, is answered 201 and performs the same    *)
(* cache invalidation.                                                     *)
C4_AlreadyPresentIsSuccess ==
    (Answered /\ response.method \in {"COPY", "MOVE"} /\ response.reply = "ok")
    => /\ response.code \in {200, 502}
       /\ response.status = 201
       /\ Invalidated(response)

(* C4 witness: of two requests so far, both the same COPY, the second was *)
(* answered 201 on upstream's 502                                         *)
C4_Witness ==
    /\ Answered
    /\ started = 2
    /\ response.method = "COPY"
    /\ response.code = 502
    /\ response.status = 201
    /\ Has(history.favorited, <<response.raw, response.dest>>)
    /\ history.favorited[<<response.raw, response.dest>>] = 2

(* C5: after a COPY/MOVE was answered 201, the first PROPFIND of the       *)
(* user-playlist root issued afterwards fetches the user's playlist list   *)
(* from upstream again instead of answering from cached data, even within  *)
(* refreshInterval of the previous listing of the root.                    *)
C5_RootRefetchedAfterCopy ==
    (Answered /\ response.method = "PROPFIND" /\ response.afterCopy)
    => "user_playlist" \in response.calls

(* C6: when a COPY/MOVE is answered 201 for playlist P, the listing cache  *)
(* holds no entry of P's directory and the entity cache no snapshot of P,  *)
(* whether the Destination was the directory or a file path inside it.     *)
C6_InvalidatedOnCreated ==
    (Answered /\ response.method \in {"COPY", "MOVE"} /\ response.status = 201)
    => /\ ~Has(webdavCache.propfind, DirectoryOf(response))
       /\ ~Has(webdavCache.playlists, response.playlist[1].id)

(* C6 witness: P was listed, and the next request, a COPY to a file path *)
(* inside P, was answered 201                                            *)
C6_Witness ==
    /\ Answered
    /\ started = 2
    /\ response.method = "COPY"
    /\ response.status = 201
    /\ response.dest = UrlDest(hrefFile(PlaylistP, song1))
    /\ Has(history.listed, PlaylistP)
    /\ response.destPath # DirectoryOf(response)

(* the Path->SongId map holds a path inside the directory *)
HoldsPathsOf(dir) == \E p \in DOMAIN songPathMap : startsWith(p, dir \o <<"/">>)

(* C7 as stated: after a COPY/MOVE answered 201 for playlist P the         *)
(* Path->SongId map no longer holds the entries derived from the listing   *)
(* of P's directory.                                                       *)
C7_PathsForgotten ==
    (Answered /\ response.method \in {"COPY", "MOVE"} /\ response.status = 201)
    => ~HoldsPathsOf(DirectoryOf(response))

(* C7 amended: a COPY/MOVE answered 201 leaves the Path->SongId map as it  *)
(* was, in memory and in the cache file; the entries derived from the      *)
(* listing of P's directory stay.                                          *)
C7_PathsKept ==
    [][(response'.pc = "done" /\ response'.method \in {"COPY", "MOVE"}
        /\ response'.status = 201)
       => (songPathMap' = songPathMap /\ disk'.songPathMap = songPathMap)]_vars

(* C7 witness: a COPY answered 201 for P, whose listed paths are in the map *)
C7_Witness ==
    /\ Answered
    /\ response.method = "COPY"
    /\ response.status = 201
    /\ Has(history.listed, PlaylistP)
    /\ HoldsPathsOf(DirectoryOf(response))

(* the Destination is inside a directory of the user-playlist root that no *)
(* playlist of the user is named as                                        *)
NamesNoPlaylist(r) ==
    /\ destMatch(r.destPath) # <<>>
    /\ \A i \in 1..Len(upUserPlaylists) :
          cleanName(upUserPlaylists[i].name) # destMatch(r.destPath)[1]

(* C8: a COPY/MOVE whose Destination names a user-playlist directory that  *)
(* no playlist of the user has the sanitized name of never issues the      *)
(* add-track mutation, and is answered 404 (unless an upstream call of the *)
(* request failed before).                                                 *)
C8_UnknownPlaylist ==
    (Answered /\ response.method \in {"COPY", "MOVE"} /\ NamesNoPlaylist(response))
    => /\ "playlist_tracks" \notin response.calls
       /\ ~response.faulted => response.status = 404

(* C8 witness: the song was found, the playlist was not *)
C8_Witness ==
    /\ Answered
    /\ response.method = "COPY"
    /\ NamesNoPlaylist(response)
    /\ response.songId # 0
    /\ "user_playlist" \in response.calls
    /\ response.status = 404
    /\ response.msg = "Target playlist not found"

(* C9 as stated: the three causes of a failed COPY/MOVE (no source song,   *)
(* no destination playlist, rejected add-track mutation) are answered with *)
(* pairwise different statuses.                                            *)
C9_DistinctStatuses ==
    \A a, b \in history.failures : a[1] # b[1] => a[2] # b[2]

(* C9 amended: a missing source song and a missing destination playlist    *)
(* are both answered 404; a rejected add-track mutation is answered with   *)
(* the code of upstream's reply when that is a status a response can       *)
(* carry, else with 500.                                                   *)
C9_FailureStatuses ==
    /\ Cause(response) \in {"source", "playlist"} => response.status = 404
    /\ Cause(response) = "mutation" =>
          response.status = (IF response.code >= 100 /\ response.code <= 999
                             THEN response.code ELSE 500)

(* C9 witness: each of the three causes has been answered, and with 404 *)
C9_Witness ==
    /\ Cause(response) # ""
    /\ {<<"source", 404>>, <<"playlist", 404>>, <<"mutation", 404>>} \subseteq history.failures

(* C10 as stated: an authenticated COPY/MOVE is answered with one of 201,  *)
(* 400, 403, 404, 500.                                                     *)
C10_FiveStatuses ==
    (Answered /\ response.method \in {"COPY", "MOVE"} /\ response.authed)
    => response.status \in {201, 400, 403, 404, 500}

(* C10 amended: an authenticated COPY/MOVE is answered with one of 201,    *)
(* 400, 403, 404, 500, or with the code upstream rejected the add-track    *)
(* mutation with.                                                          *)
C10_StatusesWithForwardedCode ==
    (Answered /\ response.method \in {"COPY", "MOVE"} /\ response.authed)
    => \/ response.status \in {201, 400, 403, 404, 500}
       \/ response.reply = "nofield" /\ response.status = response.code

(* C10 witness: upstream's 405 was passed on *)
C10_Witness ==
    /\ Answered
    /\ response.method = "COPY"
    /\ response.authed
    /\ response.reply = "nofield"
    /\ response.code = 405
    /\ response.status = 405

(* the path a Destination header names, as far as it can be decoded *)
DestPathOf(dest) == stripSlash(decodeURIComponent(pathname(dest.path)))

(* the path is of the form /MyPlaylists/<name>... with a non-empty name *)
UnderUserPlaylists(path) ==
    LET prefix == MyPlaylistsDir \o <<"/">>
    IN /\ Len(path) > Len(prefix)
       /\ SubSeq(path, 1, Len(prefix)) = prefix
       /\ path[Len(prefix) + 1] # "/"

(* C11: a COPY/MOVE whose Destination path is not of the form              *)
(* /MyPlaylists/<name>... (the bare root and the daily directories         *)
(* included) is answered 403 by the step that dispatches it: no song       *)
(* resolution, search, playlist-list fetch or mutation is issued and every *)
(* cache stays as it was.                                                  *)
C11_UnsupportedDestination ==
    [][\A t \in Tasks :
          (/\ Dispatched(t)
           /\ tasks[t].method \in {"COPY", "MOVE"}
           /\ upstream.valid /\ upstream'.faults = upstream.faults
           /\ tasks[t].dest.kind = "url"
           /\ decodable(pathname(tasks[t].dest.path))
           /\ ~UnderUserPlaylists(DestPathOf(tasks[t].dest)))
          => /\ response'.pc = "done"
             /\ response'.status = 403
             /\ response'.calls = {"login_status"}
             /\ response'.songId = 0
             /\ tasks'[t] = Idle
             /\ UNCHANGED <<webdavCache, songPathMap, disk, upstream>>]_vars

(* C11 witness: a COPY to the bare user-playlist root was answered 403 *)
C11_Witness ==
    /\ Answered
    /\ response.method = "COPY"
    /\ response.dest = UrlDest(hrefDir(MyPlaylistsDir))
    /\ response.status = 403
    /\ response.calls = {"login_status"}

(* the names of the files a listing shows *)
ListedFiles(r) == {e.displayname : e \in {f \in Range(r.body) : ~f.collection}}

(* C12: partial-batch resilience.  A PROPFIND that came to fetch song      *)
(* details is answered 207 whatever became of the batches, and a song of   *)
(* the directory is left out of the listing only if it was in a batch that *)
(* failed and the song cache has no entry of it.                           *)
C12_PartialBatch ==
    (Answered /\ response.method = "PROPFIND" /\ "song_detail" \in response.calls)
    => /\ response.status = 207
       /\ \A id \in Range(response.ids) :
             fileName(upstream.songs[id]) \notin ListedFiles(response)
             <=> (id \in Range(response.lost) /\ ~Has(webdavCache.songs, id))

(* C12 witness: of the two batches of the playlist one failed, and the *)
(* songs of the other are listed                                       *)
C12_Witness ==
    /\ Answered
    /\ response.method = "PROPFIND"
    /\ response.status = 207
    /\ Len(response.ids) > BatchSize
    /\ response.lost # <<>>
    /\ Len(response.lost) < Len(response.ids)
    /\ ListedFiles(response) # {}
    /\ \E id \in Range(response.lost) : fileName(upstream.songs[id]) \notin ListedFiles(response)

(* the awaits of handlePropfind for a list or a playlist, and those of *)
(* handleGet                                                           *)
PropfindCalls == {"pfDailyList", "pfRecList", "pfProfile", "pfUserList", "pfDetail"}
GetCalls == {"getSearch", "getUrl"}

(* C13: a request in which a list or playlist call of PROPFIND, or the     *)
(* search or stream-URL call of GET, throws or replies with a malformed    *)
(* envelope is answered 500, never 207 or 404.                             *)
C13_FailureIsServerError ==
    (Answered /\ response.failed \cap (PropfindCalls \cup GetCalls) # {})
    => response.status = 500

(* C14: when a call of handlePropfind fails the PROPFIND is answered 500   *)
(* with no listing; a PROPFIND answered 500 leaves the listing cache as it *)
(* was, and the listing cache changes only in the step that answers 207.   *)
C14_NoStaleFallback ==
    [][/\ (response'.pc = "done" /\ response'.failed \cap PropfindCalls # {})
          => (response'.status = 500 /\ response'.body = <<>>)
       /\ (response'.pc = "done" /\ response'.method = "PROPFIND" /\ response'.status = 500)
          => webdavCache'.propfind = webdavCache.propfind
       /\ webdavCache'.propfind # webdavCache.propfind
          => (response'.pc = "done" /\ response'.status = 207 /\ ~response'.hit)]_vars

(* C14 witness: the listing of the path had been cached and has expired, *)
(* the new render failed, and the old entry is still there               *)
C14_Witness ==
    /\ Answered
    /\ response.method = "PROPFIND"
    /\ response.failed \cap PropfindCalls # {}
    /\ response.status = 500
    /\ Has(webdavCache.propfind, response.urlPath)
    /\ webdavCache.propfind[response.urlPath].xml # <<>>
    /\ now - webdavCache.propfind[response.urlPath].timestamp >= refreshInterval

(* the paths a PROPFIND is to know: the root, the three fixed directories, *)
(* the directory of an existing recommended or user playlist, a cover      *)
(* image, a leaf of the Path->SongId map                                   *)
KnownPath(p) ==
    \/ p \in {Root, DailySongsDir, DailyPlaylistsDir, MyPlaylistsDir}
    \/ \E i \in 1..Len(upRecommend) :
          p = DailyPlaylistsDir \o <<"/">> \o cleanName(upRecommend[i].name)
    \/ \E i \in 1..Len(upUserPlaylists) :
          p = MyPlaylistsDir \o <<"/">> \o cleanName(upUserPlaylists[i].name)
    \/ (p # <<>> /\ p[Len(p)] \in {"cover.jpg", "folder.jpg"})
    \/ p \in DOMAIN songPathMap

(* C15: an authenticated PROPFIND of a path that is none of the known ones *)
(* is answered 404 (unless a server error came in the way), never 207.     *)
C15_UnknownPathNotFound ==
    (/\ Answered
     /\ response.method = "PROPFIND"
     /\ response.authed
     /\ ~response.faulted
     /\ response.status # 500
     /\ ~KnownPath(response.urlPath))
    => response.status = 404

(* the words the titles and artists of the requested files are made of *)
Words == {<<"a">>, <<"b">>, <<"q">>, <<"x">>}

(* C16: leaf resolution of GET.  With an entry of the path in the          *)
(* Path->SongId map no search is issued and the stream URL is requested    *)
(* for the mapped id.  Without one, for a file name '<title> - <artist>'   *)
(* with an extension, one search is issued, with the keywords              *)
(* '<title> <artist>'; the stream URL is requested for its top result, and *)
(* when there is no result the answer is 404.                              *)
C16_LeafResolution ==
    (Answered /\ response.method = "GET" /\ response.authed)
    => LET p == response.urlPath
           searches == {i \in 1..Len(response.log) : response.log[i] = "search"}
       IN IF Has(songPathMap, p)
          THEN /\ searches = {}
               /\ "song_url_v1" \in response.calls
               /\ response.songId = songPathMap[p]
          ELSE \A title \in Words, artist \in Words, ext \in {".mp3", ".flac"} :
                  basename(p) = title \o Dash \o artist \o <<ext>>
                  => /\ Cardinality(searches) = 1
                     /\ response.keywords = title \o <<" ">> \o artist
                     /\ IF upSearch(response.keywords) = <<>>
                        THEN response.status = 404 /\ "song_url_v1" \notin response.calls
                        ELSE "getSearch" \notin response.failed
                             => /\ response.songId = upSearch(response.keywords)[1]
                                /\ "song_url_v1" \in response.calls

(* C16 witness: the path was not in the map, the search found the song, *)
(* and the GET was redirected to its stream                             *)
C16_Witness ==
    /\ Answered
    /\ response.method = "GET"
    /\ ~Has(songPathMap, response.urlPath)
    /\ response.log = <<"login_status", "search", "song_url_v1">>
    /\ response.keywords = <<"a", " ", "x">>
    /\ response.songId = 1
    /\ response.status = 302

(* C17: a HEAD of a leaf path resolves the path as GET does and reports    *)
(* 200 only for a path that resolved to a song with a stream URL.          *)
C17_HeadResolves ==
    (/\ Answered
     /\ response.method = "HEAD"
     /\ response.authed
     /\ ~isCover(response.urlPath)
     /\ response.status = 200)
    => (response.songId # 0 /\ "song_url_v1" \in response.calls)

(* C19: an authenticated PROPFIND of the root is answered 207 by the step  *)
(* that dispatches it, with exactly four entries: the root itself and the  *)
(* three fixed directories; no catalog call is issued, and the song cache, *)
(* the playlist snapshots and the Path->SongId map stay as they were.      *)
C19_RootListing ==
    [][\A t \in Tasks :
          (/\ Dispatched(t)
           /\ tasks[t].method = "PROPFIND"
           /\ tasks[t].urlPath = Root
           /\ upstream.valid /\ upstream'.faults = upstream.faults)
          => /\ response'.pc = "done"
             /\ response'.status = 207
             /\ [i \in 1..Len(response'.body) |-> response'.body[i].href]
                   = <<Root, hrefDir(DailySongsDir), hrefDir(DailyPlaylistsDir),
                       hrefDir(MyPlaylistsDir)>>
             /\ \A i \in 1..Len(response'.body) : response'.body[i].collection
             /\ response'.calls = {"login_status"}
             /\ webdavCache'.songs = webdavCache.songs
             /\ webdavCache'.playlists = webdavCache.playlists
             /\ songPathMap' = songPathMap]_vars

(* C19 witness: the root was rendered while the caches held songs *)
C19_Witness ==
    /\ Answered
    /\ response.method = "PROPFIND"
    /\ response.urlPath = Root
    /\ response.status = 207
    /\ ~response.hit
    /\ Len(response.body) = 4
    /\ webdavCache.songs # EmptyMap
    /\ songPathMap # EmptyMap

(* the verbs the dispatcher hands to a handler or answers itself with 200 *)
RoutedVerbs == {"OPTIONS", "PROPFIND", "GET", "HEAD", "COPY", "MOVE"}

(* C18 as stated: with a valid credential a request is answered 405        *)
(* exactly when its verb is none of OPTIONS, PROPFIND, GET, HEAD, COPY,     *)
(* MOVE.                                                                    *)
C18_MethodNotAllowedIff ==
    (Answered /\ response.authed)
    => (response.status = 405 <=> response.method \notin RoutedVerbs)

(* C18 amended: with a valid credential a request whose verb is none of    *)
(* the six is answered 405 by the dispatcher, after login_status alone; a   *)
(* request with one of the six verbs is never refused by the dispatcher,    *)
(* and is answered 405 only where COPY or MOVE passes on the code 405 that  *)
(* upstream rejected the add-track mutation with.  OPTIONS is answered 200  *)
(* with exactly the six verbs in Allow, with or without a credential.       *)
C18_DispatcherVerbs ==
    Answered
    => /\ response.method = "OPTIONS"
          => /\ response.status = 200
             /\ response.allow = RoutedVerbs
       /\ response.authed
          => /\ response.method \notin RoutedVerbs
                => /\ response.status = 405
                   /\ response.calls = {"login_status"}
             /\ (response.method \in RoutedVerbs /\ response.status = 405)
                => /\ response.method \in {"COPY", "MOVE"}
                   /\ "playlist_tracks" \in response.calls
                   /\ response.reply = "nofield"
                   /\ response.code = 405

(* C18 witness: an authenticated PUT was refused *)
C18_Witness ==
    /\ Answered
    /\ response.authed
    /\ response.method = "PUT"
    /\ response.status = 405
    /\ response.calls = {"login_status"}

Slashes(p) == Cardinality({i \in 1..Len(p) : p[i] = "/"})

(* C20: whatever the title and the artist of a song, the file name made    *)
(* for it holds none of \ / : * ? " < > |; a file entry of the daily-songs *)
(* listing, its href and its key in the Path->SongId map have exactly one   *)
(* segment more than the directory.                                         *)
C20_CleanNames ==
    (/\ Answered
     /\ response.method = "PROPFIND"
     /\ response.urlPath = DailySongsDir
     /\ response.status = 207)
    => /\ \A id \in SongIds : Range(fileName(upstream.songs[id])) \cap Illegal = {}
       /\ \A e \in Range(response.body) :
             ~e.collection
             => /\ Range(e.displayname) \cap Illegal = {}
                /\ Slashes(e.href) = Slashes(DailySongsDir) + 1
       /\ \A q \in DOMAIN songPathMap : Slashes(q) = Slashes(DailySongsDir) + 1

(* C20 witness: a song whose title and artist are made of illegal *)
(* characters is listed under its cleaned name                    *)
C20_Witness ==
    /\ Answered
    /\ response.status = 207
    /\ upstream.songs[1].name = <<"/", "\\">>
    /\ upstream.songs[1].ar = <<"/">>
    /\ <<"_", "_">> \o Dash \o <<"_", getExtension>> \in ListedFiles(response)
    /\ DailySongsDir \o <<"/", "_", "_">> \o Dash \o <<"_", getExtension>> \in DOMAIN songPathMap

(* what the step of request t left of it: the request itself while it *)
(* awaits a reply, else its answer                                     *)
Outcome(t) == IF tasks'[t].pc = "idle" THEN response' ELSE tasks'[t]

LoggedIn == upstream.valid /\ upstream'.faults = upstream.faults

(* C21: the freshness boundary of every cache class.  A cached listing is  *)
(* served exactly while its age is below refreshInterval; a cached list of *)
(* daily songs is fetched again exactly when its age has reached           *)
(* refreshInterval; a playlist snapshot is fetched again exactly when its  *)
(* age has reached refreshInterval; a cached song is fetched again exactly *)
(* when its age has reached metadataTTL.                                   *)
C21_FreshnessBoundary ==
    [][\A t \in Tasks :
          LET k == tasks[t]
              r == Outcome(t)
              p == k.urlPath
          IN (tasks'[t] # k /\ k.method = "PROPFIND")
             => /\ (k.pc = "checkLogin" /\ LoggedIn /\ Has(webdavCache.propfind, p))
                   => (r.hit <=> now - webdavCache.propfind[p].timestamp < refreshInterval)
                /\ (k.pc = "checkLogin" /\ LoggedIn /\ ~r.hit /\ p = DailySongsDir)
                   => ("recommend_songs" \in r.calls
                       <=> now - webdavCache.dailySongs.timestamp >= refreshInterval)
                /\ (/\ k.pc \in {"checkLogin", "pfRecList", "pfUserList"}
                    /\ k.playlist = <<>>
                    /\ r.playlist # <<>>
                    /\ Has(webdavCache.playlists, r.playlist[1].id))
                   => ("playlist_detail" \in r.calls
                       <=> StartedAt(t) - webdavCache.playlists[r.playlist[1].id].timestamp
                              >= refreshInterval)
                /\ (k.ids = <<>> /\ r.ids # <<>>)
                   => \A id \in Range(r.ids) \cap DOMAIN webdavCache.songs :
                         id \in Range(r.missing)
                         <=> now - webdavCache.songs[id].timestamp >= metadataTTL]_vars

Hrefs(body) == [i \in 1..Len(body) |-> body[i].href]

(* the hrefs of the entries that denote the resource asked for: its path *)
(* as encodeURI writes it, with or without the slash of a directory     *)
SelfHrefs(p) == {encodeURI(p), encodeURI(p \o <<"/">>)}

(* the href names a child of p: p, a slash, and one segment *)
ChildHref(p, h) ==
    LET prefix == encodeURI(IF p = Root THEN p ELSE p \o <<"/">>)
        rest == stripSlash(substring(h, Len(prefix)))
    IN startsWith(h, prefix) /\ rest # <<>> /\ "/" \notin Range(rest)

(* C22: a 207 PROPFIND response holds exactly one entry whose href is the  *)
(* path asked for, and every other entry's href is that path extended by   *)
(* one name.                                                               *)
C22_SelfAndChildren ==
    (Answered /\ response.method = "PROPFIND" /\ response.status = 207)
    => LET p == response.urlPath
           h == Hrefs(response.body)
       IN /\ Cardinality({i \in 1..Len(h) : h[i] \in SelfHrefs(p)}) = 1
          /\ \A i \in 1..Len(h) : h[i] \in SelfHrefs(p) \/ ChildHref(p, h[i])

(* C23: a PROPFIND answered from the listing cache is answered by the step *)
(* that dispatches it, with the cached payload, after no other upstream    *)
(* call than checkLogin's login_status; the caches, the Path->SongId map   *)
(* and the cache file stay as they were.                                   *)
C23_CacheHitChangesNothing ==
    [][\A t \in Tasks :
          LET p == tasks[t].urlPath
          IN (/\ Dispatched(t)
              /\ tasks[t].method = "PROPFIND"
              /\ LoggedIn
              /\ Has(webdavCache.propfind, p)
              /\ fresh(webdavCache.propfind[p], now))
             => /\ response'.pc = "done"
                /\ response'.status = 207
                /\ response'.body = webdavCache.propfind[p].xml
                /\ response'.calls = {"login_status"}
                /\ webdavCache' = webdavCache
                /\ songPathMap' = songPathMap
                /\ disk' = disk
                /\ upstream' = upstream]_vars

(* C23 witness: a listing of a playlist directory was served from the *)
(* listing cache                                                      *)
C23_Witness ==
    /\ Answered
    /\ response.method = "PROPFIND"
    /\ response.urlPath = PlaylistP
    /\ response.hit
    /\ response.status = 207
    /\ Has(webdavCache.propfind, PlaylistP)
    /\ response.body = webdavCache.propfind[PlaylistP].xml

(* C24: while a batch of a song-detail fetch is awaited, every song that a *)
(* batch before it has put into the song cache is in the cache file too.   *)
C24_SavedAfterEachBatch ==
    \A t \in Tasks :
       tasks[t].pc = "songDetail"
       => \A id \in Range(tasks[t].ids) \ Range(tasks[t].missing) :
             Has(webdavCache.songs, id) => Has(disk.cache.songs, id)

(* request t is inside handlePropfind, awaiting a reply *)
InPropfind(t) == tasks[t].pc \in PropfindCalls \cup {"songDetail"}

(* the listing cache has no entry of p that the dispatcher would serve *)
Cold(p) == ~Has(webdavCache.propfind, p) \/ ~fresh(webdavCache.propfind[p], now)

(* every entry of every cache has its payload and its timestamp *)
WellFormed(c) ==
    /\ \A p \in DOMAIN c.propfind :
          DOMAIN c.propfind[p] = {"xml", "timestamp"} /\ c.propfind[p].timestamp \in Nat
    /\ \A id \in DOMAIN c.playlists :
          /\ DOMAIN c.playlists[id] = {"name", "trackIds", "timestamp"}
          /\ c.playlists[id].timestamp \in Nat
    /\ \A id \in DOMAIN c.songs :
          /\ DOMAIN c.songs[id] = {"id", "name", "ar", "timestamp"}
          /\ c.songs[id].timestamp \in Nat
    /\ \A l \in {c.userPlaylists, c.recommendPlaylists, c.dailySongs} :
          DOMAIN l = {"data", "defined", "timestamp"} /\ l.timestamp \in Nat

(* request t is dispatched as a PROPFIND of a cold path while another *)
(* PROPFIND of the same path awaits upstream                          *)
SecondMiss(t) ==
    /\ Dispatched(t)
    /\ tasks[t].method = "PROPFIND"
    /\ LoggedIn
    /\ Cold(tasks[t].urlPath)
    /\ \E u \in Tasks \ {t} :
          /\ InPropfind(u)
          /\ tasks[u].method = "PROPFIND"
          /\ tasks[u].urlPath = tasks[t].urlPath

(* the step answers PROPFIND t with a listing rendered for it: the listing *)
(* is of the songs the request found itself, and the payload, stamped with *)
(* the time of the answer, replaces whatever the listing cache held for    *)
(* the path, no other entry being touched                                  *)
RendersOwn(t) ==
    LET r == response'
    IN (/\ tasks'[t] # tasks[t] /\ tasks[t].method = "PROPFIND"
        /\ r.pc = "done" /\ r.status = 207 /\ ~r.hit)
       => /\ webdavCache'.propfind
                = Put(webdavCache.propfind, tasks[t].urlPath,
                      [xml |-> r.body, timestamp |-> now])
          /\ ListedFiles(r)
                = {fileName(webdavCache'.songs[id]) :
                      id \in Range(r.ids) \cap DOMAIN webdavCache'.songs}

(* C25 as stated: of two PROPFINDs of one cold path that overlap, both     *)
(* miss and both fetch from upstream; each is answered with the payload it *)
(* rendered itself, the listing cache holds the payload of the one that    *)
(* finished last, and the caches stay well-formed.                         *)
C25_BothMissBothFetch ==
    [][/\ \A t \in Tasks :
             /\ SecondMiss(t) => (~Outcome(t).hit /\ InPropfind(t)')
             /\ RendersOwn(t)
       /\ WellFormed(webdavCache')]_vars

(* C25 amended: of two PROPFINDs of one cold path that overlap, both miss; *)
(* the second fetches from upstream what the list, snapshot and song       *)
(* caches it reads do not hold fresh, and renders without any fetch when   *)
(* they hold it all.  Each is answered with the payload it rendered        *)
(* itself, the listing cache holds the payload of the one that finished    *)
(* last, and the caches stay well-formed.                                  *)
C25_LastWriterWins ==
    [][/\ \A t \in Tasks :
             /\ SecondMiss(t)
                => /\ ~Outcome(t).hit
                   /\ InPropfind(t)' \/ (response'.pc = "done" /\ response'.status = 207)
                   /\ InPropfind(t)' <=> Len(Outcome(t).log) > 1
             /\ RendersOwn(t)
       /\ WellFormed(webdavCache')]_vars

(* C25 witness: two PROPFINDs of the directory of playlist p were the only *)
(* requests, no time passed, and the one that finished last was not served *)
(* from the cache: it had been dispatched before the other one rendered    *)
C25_Witness ==
    /\ Answered
    /\ AllIdle
    /\ started = 2
    /\ now = StartTime
    /\ upstream.tracks = upInitialTracks
    /\ DOMAIN webdavCache.propfind = {PlaylistP}
    /\ response.method = "PROPFIND"
    /\ response.urlPath = PlaylistP
    /\ response.status = 207
    /\ ~response.hit
    /\ webdavCache.propfind[PlaylistP] = [xml |-> response.body, timestamp |-> now]

(* the song of the daily list that comes last of those whose file is p *)
LaterSong(p) ==
    LET I == {i \in 1..Len(upDailySongs) :
                 DailySongsDir \o <<"/">> \o fileName(upstream.songs[upDailySongs[i]]) = p}
    IN IF I = {} THEN 0 ELSE upDailySongs[CHOOSE i \in I : \A j \in I : j <= i]

(* C26: collision policy.  After a listing of the daily songs the          *)
(* Path->SongId map maps the path of each listed file to the song that     *)
(* comes last in listing order among those with that file name, and a GET  *)
(* of the path requests, and is redirected to, the stream URL of that song.*)
C26_LastSongWins ==
    /\ \A p \in DOMAIN songPathMap : songPathMap[p] = LaterSong(p)
    /\ \A t \in Tasks :
          tasks[t].pc = "getUrl" => tasks[t].songId = LaterSong(tasks[t].urlPath)
    /\ (Answered /\ response.method = "GET" /\ response.status = 302)
       => response.songId = LaterSong(response.urlPath)
    /\ (Answered /\ response.method = "PROPFIND" /\ response.status = 207 /\ ~response.hit)
       => \A id \in Range(upDailySongs) :
             Has(songPathMap, DailySongsDir \o <<"/">> \o fileName(upstream.songs[id]))

(* C26 witness: both daily songs are listed under one file name, and the *)
(* GET of it was redirected to the stream of the second                  *)
C26_Witness ==
    /\ Answered
    /\ response.method = "GET"
    /\ response.status = 302
    /\ response.urlPath = DailySongsDir \o <<"/">> \o fileName(upstream.songs[1])
    /\ fileName(upstream.songs[1]) = fileName(upstream.songs[2])
    /\ response.songId = 2
    /\ response.calls = {"login_status", "song_url_v1"}

(* the names of the file entries of a listing, in the order of the body *)
FileNames(body) ==
    LET files == SelectSeq(body, LAMBDA e : ~e.collection)
    IN [i \in 1..Len(files) |-> files[i].displayname]

(* C27: the file entries of a rendered playlist directory are the tracks   *)
(* of the playlist's snapshot in the snapshot's order, those without song  *)
(* metadata left out, none moved and none repeated; the snapshot holds the *)
(* tracks in upstream's order, so that two renders against an unchanged    *)
(* upstream playlist list the files in the same order.                     *)
C27_SnapshotOrder ==
    (/\ Answered
     /\ response.method = "PROPFIND"
     /\ response.status = 207
     /\ ~response.hit
     /\ response.playlist # <<>>)
    => LET pid == response.playlist[1].id
           known == SelectIds(webdavCache.playlists[pid].trackIds, DOMAIN webdavCache.songs)
       IN /\ Has(webdavCache.playlists, pid)
          /\ webdavCache.playlists[pid].trackIds = upstream.tracks[pid]
          /\ response.ids = webdavCache.playlists[pid].trackIds
          /\ FileNames(response.body)
                = [i \in 1..Len(known) |-> fileName(webdavCache.songs[known[i]])]

(* C27 witness: the playlist directory was rendered a second time, from   *)
(* the snapshot of the first render, with all its tracks                  *)
C27_Witness ==
    /\ Answered
    /\ response.method = "PROPFIND"
    /\ response.urlPath = PlaylistR
    /\ response.status = 207
    /\ ~response.hit
    /\ started = 2
    /\ "playlist_detail" \notin response.calls
    /\ Len(FileNames(response.body)) = Len(BulkTracks)

(* C28: while upstream holds the session invalid, the dispatcher answers   *)
(* every request but OPTIONS with 401; a step that answers 401 leaves the  *)
(* song cache, the playlist snapshots, the list caches, the listing cache, *)
(* the Path->SongId map and the cache file as they were; and a PROPFIND    *)
(* dispatched once the session is valid again, while the listing its       *)
(* client saw is still fresh, is answered with that listing.               *)
C28_RejectedLeavesCaches ==
    [][/\ \A t \in Tasks :
             (Dispatched(t) /\ ~upstream.valid /\ tasks[t].method # "OPTIONS")
             => (response'.pc = "done" /\ response'.status = 401)
       /\ (response'.pc = "done" /\ response'.status = 401)
          => UNCHANGED <<webdavCache, songPathMap, disk>>
       /\ (/\ response'.pc = "done"
           /\ response'.method = "PROPFIND"
           /\ response'.authed
           /\ response'.expect # <<>>)
          => /\ response'.status = 207
             /\ response'.body = response'.expect[1]
             /\ response'.calls = {"login_status"}]_vars

(* C28 witness: a PROPFIND of a listed path is rejected while the session *)
(* is revoked, and the listing is still in the cache                      *)
C28_Witness ==
    /\ Answered
    /\ response.method = "PROPFIND"
    /\ response.status = 401
    /\ response.expect # <<>>
    /\ ~upstream.valid
    /\ Has(webdavCache.propfind, response.urlPath)
    /\ webdavCache.propfind[response.urlPath].xml = response.expect[1]

(* C29: a PROPFIND of the directory of a user playlist that arrives after  *)
(* a COPY/MOVE of a song into that playlist was answered 201, and is       *)
(* answered 207, lists the song, whatever other requests are in flight.    *)
C29_AddedSongIsListed ==
    (Answered /\ response.method = "PROPFIND" /\ response.status = 207)
    => \A id \in response.added : fileName(upstream.songs[id]) \in ListedFiles(response)

(* how often the request has issued the add-track mutation *)
Mutations(r) == Cardinality({i \in 1..Len(r.log) : r.log[i] = "playlist_tracks"})

(* C30: every step of a COPY/MOVE but the one that answers 201 leaves the  *)
(* listing cache, the playlist snapshots, the list caches, the song cache, *)
(* the Path->SongId map and the cache file as they were, whatever status   *)
(* the request is answered with; the request issues the add-track mutation *)
(* at most once, and upstream's playlists change in no step but the one    *)
(* that receives the reply of the mutation.                                *)
C30_FailedCopyChangesNothing ==
    [][\A t \in Tasks :
          LET r == Outcome(t)
          IN (tasks'[t] # tasks[t] /\ r.method \in {"COPY", "MOVE"})
             => /\ ~(r.pc = "done" /\ r.status = 201)
                   => UNCHANGED <<webdavCache, songPathMap, disk>>
                /\ Mutations(r) <= 1
                /\ upstream'.tracks # upstream.tracks => tasks[t].pc = "cpAdd"]_vars

(* C30 witness: the playlist's directory was listed, and the add-track  *)
(* mutation of the next request failed: the listing, the snapshot and   *)
(* the list of playlists are still cached                               *)
C30_Witness ==
    /\ Answered
    /\ response.method = "COPY"
    /\ response.status = 500
    /\ Mutations(response) = 1
    /\ Has(webdavCache.propfind, PlaylistP)
    /\ Has(webdavCache.playlists, response.playlist[1].id)
    /\ webdavCache.userPlaylists.timestamp # 0
    /\ disk.cache = webdavCache

----------------------------------------------------------------------------
(* the last step answered 207 with the listing of a playlist directory that *)
(* shows the playlist's tracks                                              *)
PlaylistListing ==
    /\ Answered
    /\ response.method = "PROPFIND"
    /\ response.status = 207
    /\ Has(history.listed, response.urlPath)
    /\ history.listed[response.urlPath].tracksAt >= 0

(* the time since playlist_detail returned the tracks that the answer shows *)
Staleness == now - history.listed[response.urlPath].tracksAt

(* C31, as stated: the track list that a 207 answer for a playlist       *)
(* directory shows was fetched from upstream less than refreshInterval   *)
(* before the answer is sent.                                            *)
C31_FetchedWithinInterval == PlaylistListing => Staleness < refreshInterval

(* C31, amended: the listing that a 207 answer for a playlist directory  *)
(* carries was rendered less than refreshInterval before the answer is   *)
(* sent, and the track list it shows was fetched no more than            *)
(* refreshInterval before the request that rendered it started; the age  *)
(* of the track list is so less than twice refreshInterval plus the time *)
(* the rendering request took.                                           *)
C31_BoundedStaleness ==
    PlaylistListing =>
        LET l == history.listed[response.urlPath]
        IN /\ now - l.at < refreshInterval
           /\ l.startedAt - l.tracksAt <= refreshInterval
           /\ Staleness < 2 * refreshInterval + (l.at - l.startedAt)

(* a listing served from the listing cache that was rendered from a      *)
(* snapshot fetched by an earlier request: its tracks are older than     *)
(* refreshInterval                                                       *)
C31_Witness ==
    /\ PlaylistListing
    /\ response.hit
    /\ history.listed[response.urlPath].tracksAt < history.listed[response.urlPath].startedAt
    /\ Staleness > refreshInterval

----------------------------------------------------------------------------
(* the three list entries of the entity cache *)
ListEntries == {"dailySongs", "recommendPlaylists", "userPlaylists"}

(* the step answers a COPY/MOVE with 201, which resets the timestamp of *)
(* the user-playlist entry to 0                                         *)
ResetByCopy(e) ==
    /\ e = "userPlaylists"
    /\ webdavCache'[e].timestamp = 0
    /\ response'.pc = "done"
    /\ IsCopy(response')
    /\ response'.status = 201

(* C32: the fetch timestamp of an entity-cache entry (daily songs,        *)
(* recommended playlists, user playlists, each playlist snapshot) never   *)
(* exceeds the clock and no step lowers it, the reset of the              *)
(* user-playlist timestamp to 0 by a COPY/MOVE answered 201 apart; also   *)
(* when requests that took their 'now' before awaiting upstream complete  *)
(* in another order than they started in.                                 *)
C32_TimestampsMonotone ==
    [][/\ \A e \in ListEntries :
             /\ webdavCache'[e].timestamp <= now'
             /\ webdavCache'[e].timestamp >= webdavCache[e].timestamp \/ ResetByCopy(e)
       /\ \A id \in DOMAIN webdavCache'.playlists :
             /\ webdavCache'.playlists[id].timestamp <= now'
             /\ id \in DOMAIN webdavCache.playlists
                   => webdavCache'.playlists[id].timestamp
                         >= webdavCache.playlists[id].timestamp]_vars

----------------------------------------------------------------------------
(* the paths of the listing cache that name the daily-songs directory or *)
(* a directory under one of the two playlist roots                       *)
SongDirectories ==
    {p \in DOMAIN webdavCache.propfind :
        \/ p = DailySongsDir
        \/ startsWith(p, DailyPlaylistsDir \o <<"/">>)
        \/ startsWith(p, MyPlaylistsDir \o <<"/">>)}

(* the full paths of the file children that the cached listing of p lists *)
FileChildren(p) ==
    IF Has(webdavCache.propfind, p)
    THEN {p \o <<"/">> \o e.displayname :
             e \in {f \in Range(webdavCache.propfind[p].xml) : ~f.collection}}
    ELSE {}

(* C33: in every reachable state, every file child of a listing of the   *)
(* daily-songs directory or of a playlist directory that the listing     *)
(* cache holds has an entry, a song id, in the Path->SongId map for its  *)
(* full path: directory path + '/' + file name.  As this holds after     *)
(* every step, no step takes such an entry away, or leaves it without a  *)
(* song, while the listing that names it is still cached.                *)
C33_ListedFilesAreMapped ==
    \A p \in SongDirectories :
        \A f \in FileChildren(p) : Has(songPathMap, f) /\ songPathMap[f] \in SongIds

(* the server was started again and read from the cache file the listings *)
(* of the daily-songs directory and of a playlist directory, both with    *)
(* file children                                                          *)
C33_Witness ==
    /\ history.reloaded
    /\ webdavCache = disk.cache
    /\ FileChildren(DailySongsDir) # {}
    /\ FileChildren(PlaylistP) # {}

----------------------------------------------------------------------------
(* the step ends the run of request t's handler: the handler awaits no  *)
(* call any more, as it has returned or has thrown                      *)
Ends(t) == tasks'[t].pc # tasks[t].pc /\ tasks'[t].pc \in {"idle", "hung"}

(* C34: every request that arrives while the server holds a valid        *)
(* credential is answered exactly once, for each verb and path: when the *)
(* upstream calls that the handler awaits have returned or thrown and    *)
(* the handler's run ends, the request has been sent a response, its     *)
(* own, and no step sends a second one, on no path of the handlers.      *)
C34_AnsweredExactlyOnce ==
    /\ [](response.sent = IF response.pc = "done" THEN 1 ELSE 0)
    /\ [][\A t \in Tasks :
             Ends(t) => /\ response'.pc = "done"
                        /\ response'.method = IF tasks[t].pc = "idle" THEN tasks'[t].method
                                               ELSE tasks[t].method
                        /\ response'.raw = IF tasks[t].pc = "idle" THEN tasks'[t].raw
                                            ELSE tasks[t].raw]_vars

====
